---- MODULE Spec2Model ----
(***************************************************************************)
(* State-machine model of the reminder scheduler of the notes bot          *)
(* (src/discord_reminder_scheduler.py, EnhancedDiscordReminderScheduler)   *)
(* together with the parts of its environment it talks to: the note store  *)
(* (src/database.py), the APScheduler timer engine it owns, the Discord    *)
(* channel cache and the asyncio event loop that runs the fire handler.    *)
(*                                                                         *)
(* Everything runs on one asyncio event loop.  schedule_reminder,          *)
(* cancel_reminder and cancel_user_reminders are plain "def" functions     *)
(* that never await, so each is one atomic step.  The fire handler         *)
(* _send_reminder is a coroutine; the timer engine first takes the due job *)
(* out of its job store and creates a task for it (ProcessJobs), and the   *)
(* task body runs in a later loop iteration (RunJob).  Other steps can     *)
(* happen between the two.                                                 *)
(*                                                                         *)
(* Time is counted in ticks of TickSeconds seconds.                        *)
(***************************************************************************)
EXTENDS Integers, FiniteSets, Sequences, TLC

\* ---------------------------------------------------------------- bounds
MaxTime == 2
MaxUser == 1
MaxNote == 2
MaxFireTime == 2

\* ------------------------------------------------------ program constants
\* config.py: REMINDER_MAX_PER_USER = int(os.getenv('REMINDER_MAX_PER_USER', '10'));
\* the model runs the configuration REMINDER_MAX_PER_USER=2.
REMINDER_MAX_PER_USER == 2
\* job_defaults 'misfire_grace_time': 60 (seconds)
MisfireGraceTime == 60
\* one tick of the model clock, in seconds
TickSeconds == 120
\* note['note_text'][:100]
NoteTextLimit == 100

Users == 1..MaxUser
NoteIds == 1..MaxNote
Channels == {1}
FireTimes == 1..MaxFireTime

\* the module namespace had the module also imported discord
ModuleGlobalsWithDiscord ==
    {"asyncio", "datetime", "timedelta", "Optional", "Dict", "Any", "List",
     "AsyncIOScheduler", "DateTrigger", "IntervalTrigger", "CronTrigger",
     "EVENT_JOB_ERROR", "EVENT_JOB_EXECUTED", "timezone", "re",
     "get_logger", "log_performance", "REMINDER_TIMEZONE",
     "REMINDER_MAX_PER_USER", "db", "logger", "discord"}

\* Names bound in the module namespace of discord_reminder_scheduler.py by
\* its import statements (lines 5-18) and the module-level logger.  The
\* name "discord" is not among them.
ModuleGlobals ==
    {"asyncio", "datetime", "timedelta", "Optional", "Dict", "Any", "List",
     "AsyncIOScheduler", "DateTrigger", "IntervalTrigger", "CronTrigger",
     "EVENT_JOB_ERROR", "EVENT_JOB_EXECUTED", "timezone", "re",
     "get_logger", "log_performance", "REMINDER_TIMEZONE",
     "REMINDER_MAX_PER_USER", "db", "logger"}

\* ------------------------------------------------------------- job ids
\* A job id is modelled as a triple.  NoJobId stands for None (no id given /
\* no id returned).  The only caller, remind_command, passes no job_id.
NoJobId == <<0, 0, 0>>

\* f"reminder_{user_id}_{note_id}_{int(reminder_time.timestamp())}"
DerivedJobId(user_id, note_id, reminder_time) == <<user_id, note_id, reminder_time>>

JobIds == Users \X NoteIds \X FireTimes

\* ------------------------------------------------------------ note texts
ShortText == <<"m", "i", "l", "k">>
LongText == [i \in 1..(NoteTextLimit + 1) |-> "x"]
\* the text a user writes into note note_id
TextOf(note_id) == IF note_id = 1 THEN ShortText ELSE LongText

\* text[:100]
Truncate(text) ==
    IF Len(text) <= NoteTextLimit THEN text ELSE SubSeq(text, 1, NoteTextLimit)

VARIABLES
    reminder_callbacks,   \* self.reminder_callbacks: job id -> metadata
    user_reminder_counts, \* self.user_reminder_counts: user -> count
    discord_bot,          \* self.discord_bot is set
    running,              \* self.scheduler.running
    jobstore,             \* timer engine: pending job id -> run time
    tasks,                \* event loop: created, not yet run fire tasks
    channels,             \* channels the bot can resolve (get_channel)
    notes,                \* note store: note id -> row
    sent,                 \* deliveries made through channel.send
    now,                  \* wall clock, in ticks
    last,                 \* the last scheduler call and what it returned
    listing,              \* what the last get_user_reminders call returned
    buckets,              \* RateLimiter.buckets: key -> deque of timestamps
    lock,                 \* RateLimiter.lock: 0, or the thread that holds it
    pc,                   \* per thread: where it is in is_allowed
    frame,                \* per thread: the locals of its is_allowed call
    result,               \* per thread: what its last is_allowed returned
    admitted,             \* key -> every timestamp ever appended for it
    wallclock,            \* time.time(), in seconds
    rate_limiters,        \* CommandRateLimiter.rate_limiters: name -> RateLimiter
    cmd_admitted,         \* (user, command) -> times is_command_allowed said yes
    cmd_last,             \* the last CommandRateLimiter call and its result
    messages,             \* the inbound Discord messages and how far each got
    db_notes,             \* the notes table of NotesDatabase: id -> row
    db_cache,             \* NotesDatabase.cache: key -> value and timestamp
    db_last,              \* the last database call or delete command
    time_string,          \* the time expression handed to the parsers
    parse_now,            \* datetime.now(...) of the parse, seconds of today
    parsed,               \* what the last parser call returned
    send_calls,           \* every send call a fire handler made, in order
    firings,              \* how many times a fire handler has been run
    telegram_bot,         \* ReminderScheduler.bot is set
    telegram_jobs,        \* ReminderScheduler.scheduler: pending job ids
    bucket_info,          \* what the last get_bucket_info call returned
    allowed_guilds,       \* SecurityManager.allowed_guilds
    blocked_users,        \* SecurityManager.blocked_users
    suspicious_activity,  \* SecurityManager.suspicious_activity: user -> list
    sec_last,             \* the last SecurityMiddleware call and its result
    sec_lock,             \* SecurityManager.lock: 0, or the thread that holds it
    sec_pc,               \* per thread: where it is in record_suspicious_activity
    sec_frame,            \* per thread: the locals of that call
    recorded              \* user -> every record ever appended for the user

\* the state of one RateLimiter and of the threads that call it
limiterVars == <<buckets, lock, pc, frame, result, admitted, wallclock>>

\* the state of the CommandRateLimiter
commandLimiterVars == <<rate_limiters, cmd_admitted, cmd_last>>

\* the state of the Discord command dispatch
dispatchVars == <<messages>>

\* the state of NotesDatabase
databaseVars == <<db_notes, db_cache, db_last>>

\* the input and the result of the time parsers
parserVars == <<time_string, parse_now, parsed>>

\* the send calls of the fire handlers and the Telegram scheduler
fireVars == <<send_calls, firings, telegram_bot, telegram_jobs>>

\* the result of get_bucket_info
infoVars == <<bucket_info>>

\* the state of SecurityManager and the last SecurityMiddleware call
securityVars == <<allowed_guilds, blocked_users, suspicious_activity, sec_last>>

\* the threads inside SecurityManager.record_suspicious_activity
activityVars == <<sec_lock, sec_pc, sec_frame, recorded>>

\* the variables only the later sections' operations touch
restVars == <<parserVars, fireVars, infoVars, securityVars, activityVars>>

\* the variables the scheduler's operations never touch
otherVars == <<listing, limiterVars, commandLimiterVars, dispatchVars,
               databaseVars, restVars>>

vars == <<reminder_callbacks, user_reminder_counts, discord_bot, running,
          jobstore, tasks, channels, notes, sent, now, last, otherVars>>

\* a note id that has no row: never inserted, or deleted (AUTOINCREMENT
\* ids are not given out again)
NoRow == [present |-> FALSE, deleted |-> FALSE, note_text |-> <<>>]
DeletedRow == [present |-> FALSE, deleted |-> TRUE, note_text |-> <<>>]

\* A record of one call: the operation, the job id it was about, the job
\* id it returned (schedule_reminder; NoJobId is None), the branch it took,
\* and whether it repeats the call before it, which succeeded (same
\* operation on the same job id).
Call(op, job, ret, path) ==
    [op |-> op, job |-> job, ret |-> ret, path |-> path,
     again |-> (last.op = op /\ last.job = job
                /\ last.path \in {"scheduled", "cancelled"})]

NoCall == [op |-> "none", job |-> NoJobId, ret |-> NoJobId, path |-> "none",
           again |-> FALSE]

\* ------------------------------------------------ RateLimiter, at rest
MaxThread == 2
MaxKey == 2
MaxClock == 3
Threads == 1..MaxThread
Keys == 1..MaxKey

\* the locals of an is_allowed call: the bucket key, the time _cleanup_expired
\* read and the current_time is_allowed read
NoFrame == [key |-> 0, cleanup_time |-> 0, current_time |-> 0]
\* (is_allowed, retry_after_seconds); none returned yet
NoResult == [allowed |-> FALSE, retry_after |-> 0, returned |-> FALSE]

\* RateLimiter.__init__, no thread in a call
LimiterIdle ==
    /\ buckets = [k \in Keys |-> <<>>]
    /\ lock = 0
    /\ pc = [t \in Threads |-> "idle"]
    /\ frame = [t \in Threads |-> NoFrame]
    /\ result = [t \in Threads |-> NoResult]
    /\ admitted = [k \in Keys |-> <<>>]
    /\ wallclock = 0

\* ----------------------------------------- CommandRateLimiter, at rest
MaxLimitedUser == 2
LimitedUsers == 1..MaxLimitedUser
\* the commands the model issues
Commands == {"add", "list"}

NoCommandCall == [op |-> "none", user_id |-> 0, command |-> "none",
                  cleanup_time |-> 0, current_time |-> 0,
                  allowed |-> FALSE, retry_after |-> 0]

\* CommandRateLimiter.__init__: no RateLimiter created yet
CommandLimiterIdle ==
    /\ rate_limiters = <<>>
    /\ cmd_admitted = [u \in LimitedUsers, c \in Commands |-> <<>>]
    /\ cmd_last = NoCommandCall

\* ------------------------------------------ Discord dispatch, at rest
MaxMessage == 3
Messages == 1..MaxMessage
\* ctx.guild is None in a direct message
NoGuild == 0
MaxGuild == 2
Guilds == NoGuild..MaxGuild

\* a message not received yet
NoMessage == [author |-> 0, guild |-> NoGuild, command |-> "none",
              listener |-> "none", handler |-> "none"]

\* no message received yet
DispatchIdle == messages = [m \in Messages |-> NoMessage]

\* ------------------------ record_suspicious_activity threads, at rest
NoActivityFrame == [user_id |-> 0, command |-> "none", kept |-> <<>>]

\* no thread is inside record_suspicious_activity
ActivityIdle ==
    /\ sec_lock = 0
    /\ sec_pc = [t \in Threads |-> "idle"]
    /\ sec_frame = [t \in Threads |-> NoActivityFrame]
    /\ recorded = [u \in LimitedUsers |-> <<>>]

\* ---------------------------------------------- SecurityManager, at rest
\* config.py: ALLOWED_GUILDS and BLOCKED_USERS are read from the environment
\* (default: empty); the model runs ALLOWED_GUILDS=1 and BLOCKED_USERS=2.
ALLOWED_GUILDS == {1}
BLOCKED_USERS == {2}
\* "Keep only last 10 activities per user"
ActivitiesKept == 10

NoSecurityCall == [op |-> "none", user_id |-> 0, guild_id |-> NoGuild,
                   command |-> "none", success |-> FALSE,
                   has_permission |-> FALSE, error_msg |-> ""]

\* SecurityManager.__init__, and no SecurityMiddleware call made yet
SecurityIdle ==
    /\ allowed_guilds = ALLOWED_GUILDS
    /\ blocked_users = BLOCKED_USERS
    /\ suspicious_activity = [u \in LimitedUsers |-> <<>>]
    /\ sec_last = NoSecurityCall

\* -------------------------------------------- NotesDatabase, at rest
MaxDbUser == 2
DbUsers == 1..MaxDbUser
MaxDbNote == 2
DbNoteIds == 1..MaxDbNote

\* an id of the notes table that was never given out
NoDbRow == [state |-> "absent", user_id |-> 0, note_text |-> <<>>]

NoDbCall == [op |-> "none", requester |-> 0, requested |-> 0,
             user_id |-> 0, note_id |-> 0, keyword |-> "", success |-> FALSE,
             notes |-> <<>>, total_count |-> 0]

\* NotesDatabase.__init__ on a new file: empty table, empty cache
DatabaseIdle ==
    /\ db_notes = [n \in DbNoteIds |-> NoDbRow]
    /\ db_cache = <<>>
    /\ db_last = NoDbCall

\* ------------------------------------------------ time parsers, at rest
\* What a parser returns.  "none" is None; "instant" is an aware datetime
\* given in seconds counted from today's midnight (today is the date of
\* now); "date" is a datetime on the calendar date <<year, month, day>> at
\* the time of day seconds, aware or naive.
ParseNone == [kind |-> "none", seconds |-> 0, date |-> <<0, 0, 0>>,
              aware |-> FALSE]
NoParse == [parser |-> "none", raised |-> FALSE, value |-> ParseNone]

\* no parser call made
\* no get_bucket_info call made yet
NoInfo == [key |-> 0, current_requests |-> 0, max_requests |-> 0,
           window_size |-> 0, remaining_requests |-> 0, reset_time |-> 0]
InfoIdle == bucket_info = NoInfo

\* no fire handler has run; ReminderScheduler.__init__: bot None, no jobs
FireIdle ==
    /\ send_calls = <<>>
    /\ firings = 0
    /\ telegram_bot = FALSE
    /\ telegram_jobs = {}

ParserIdle ==
    /\ time_string = <<>>
    /\ parse_now = 0
    /\ parsed = NoParse

\* no get_user_reminders call made yet
NoListing == [user_id |-> 0, reminders |-> <<>>]

Init ==
    /\ reminder_callbacks = <<>>
    /\ user_reminder_counts = [u \in Users |-> 0]
    /\ discord_bot = FALSE
    /\ running = FALSE
    /\ jobstore = <<>>
    /\ tasks = <<>>
    /\ channels = Channels
    /\ notes = [n \in NoteIds |-> NoRow]
    /\ sent = <<>>
    /\ now = 0
    /\ last = NoCall
    /\ listing = NoListing
    /\ LimiterIdle
    /\ CommandLimiterIdle
    /\ DispatchIdle
    /\ DatabaseIdle
    /\ ParserIdle
    /\ FireIdle
    /\ InfoIdle
    /\ SecurityIdle
    /\ ActivityIdle

\* ------------------------------------------------- finite-map helpers
Put(f, k, v) == [x \in (DOMAIN f) \cup {k} |-> IF x = k THEN v ELSE f[x]]
Drop(f, k) == [x \in (DOMAIN f) \ {k} |-> f[x]]

\* --------------------------------------------------------- quota helpers
\* a quota check that is off by one
check_user_reminder_limit_le(counts, user_id) ==
    counts[user_id] <= REMINDER_MAX_PER_USER

\* _check_user_reminder_limit: current_count < REMINDER_MAX_PER_USER
check_user_reminder_limit(counts, user_id) ==
    counts[user_id] < REMINDER_MAX_PER_USER

\* _increment_user_reminder_count
increment_user_reminder_count(counts, user_id) ==
    [counts EXCEPT ![user_id] = counts[user_id] + 1]

\* _decrement_user_reminder_count: never below zero
decrement_user_reminder_count(counts, user_id) ==
    IF counts[user_id] > 0
    THEN [counts EXCEPT ![user_id] = counts[user_id] - 1]
    ELSE counts

\* _cleanup_reminder, on the pair (reminder_callbacks, user_reminder_counts)
cleanup_reminder(cb, counts, job_id, user_id) ==
    [cb |-> IF job_id \in DOMAIN cb THEN Drop(cb, job_id) ELSE cb,
     counts |-> decrement_user_reminder_count(counts, user_id)]

\* the loop of get_user_reminders / cancel_user_reminders that selects the
\* entries of reminder_callbacks owned by user_id
LiveJobsOf(cb, user_id) == {j \in DOMAIN cb : cb[j].user_id = user_id}

\* db.get_note_by_id(note_id): the row, or None
get_note_by_id(note_id) == notes[note_id]

\* ----------------------------------------------------- schedule_reminder
\* The id the call works with: the given one, or the derived one.
EffectiveJobId(user_id, note_id, reminder_time, job_id) ==
    IF job_id = NoJobId
    THEN DerivedJobId(user_id, note_id, reminder_time)
    ELSE job_id

\* line 98, "return None" after the quota check
CapacityReturn == NoJobId
\* line 107, "return None" after the note lookup
NotFoundReturn == NoJobId

\* The value schedule_reminder returns in the current state.
ScheduleReturn(user_id, note_id, reminder_time, job_id) ==
    IF ~check_user_reminder_limit(user_reminder_counts, user_id) THEN CapacityReturn
    ELSE IF ~get_note_by_id(note_id).present THEN NotFoundReturn
    ELSE EffectiveJobId(user_id, note_id, reminder_time, job_id)

\* Which way the call goes in the current state.
SchedulePath(user_id, note_id) ==
    IF ~check_user_reminder_limit(user_reminder_counts, user_id) THEN "capacity"
    ELSE IF ~get_note_by_id(note_id).present THEN "notfound"
    ELSE "scheduled"

schedule_reminder(user_id, note_id, reminder_time, channel_id, job_id) ==
    LET jid == EffectiveJobId(user_id, note_id, reminder_time, job_id)
        path == SchedulePath(user_id, note_id)
    IN  /\ IF path = "scheduled"
           THEN /\ reminder_callbacks' = Put(reminder_callbacks, jid,
                       [user_id |-> user_id,
                        note_id |-> note_id,
                        channel_id |-> channel_id,
                        reminder_time |-> reminder_time,
                        note_text |-> Truncate(get_note_by_id(note_id).note_text)])
                \* add_job(..., id=job_id, replace_existing=True)
                /\ jobstore' = Put(jobstore, jid, reminder_time)
                /\ user_reminder_counts' =
                       increment_user_reminder_count(user_reminder_counts, user_id)
           ELSE UNCHANGED <<reminder_callbacks, jobstore, user_reminder_counts>>
        /\ last' = Call("schedule", jid,
                         ScheduleReturn(user_id, note_id, reminder_time, job_id),
                         path)
        /\ UNCHANGED <<otherVars, discord_bot, running, tasks, channels, notes, sent, now>>

\* ------------------------------------------------------- cancel_reminder
\* a cancel_reminder without the "job_id in self.reminder_callbacks" guard:
\* it takes the owner from the job id and cleans up whatever it finds
CancelOneUnguarded(st, job_id) ==
    LET c == cleanup_reminder(st.cb, st.counts, job_id, job_id[1])
    IN  [cb |-> c.cb,
         js |-> IF job_id \in DOMAIN st.js THEN Drop(st.js, job_id) ELSE st.js,
         counts |-> c.counts, ok |-> TRUE, n |-> st.n + 1]

\* One cancel_reminder call on the triple (callbacks, job store, counts);
\* scheduler.remove_job raises JobLookupError when the timer engine holds
\* no job with that id, and the except branch then returns False.
CancelOne(st, job_id) ==
    IF job_id \in DOMAIN st.cb
    THEN IF job_id \in DOMAIN st.js
         THEN LET c == cleanup_reminder(st.cb, st.counts, job_id,
                                        st.cb[job_id].user_id)
              IN  [cb |-> c.cb, js |-> Drop(st.js, job_id),
                   counts |-> c.counts, ok |-> TRUE, n |-> st.n + 1]
         ELSE [st EXCEPT !.ok = FALSE]
    ELSE [st EXCEPT !.ok = FALSE]

SchedulerState ==
    [cb |-> reminder_callbacks, js |-> jobstore,
     counts |-> user_reminder_counts, ok |-> FALSE, n |-> 0]

\* Which way cancel_reminder goes in the current state.
\*   absent        line 226/232: no metadata, return False
\*   cancelled     line 227-231: timer removed, cleaned up, return True
\*   lookup_error  line 228, 233-235: remove_job raises, return False
CancelPath(job_id) ==
    IF job_id \notin DOMAIN reminder_callbacks THEN "absent"
    ELSE IF job_id \in DOMAIN jobstore THEN "cancelled"
    ELSE "lookup_error"

cancel_reminder(job_id) ==
    LET st == CancelOne(SchedulerState, job_id)
    IN  /\ reminder_callbacks' = st.cb
        /\ jobstore' = st.js
        /\ user_reminder_counts' = st.counts
        /\ last' = Call("cancel", job_id, NoJobId, CancelPath(job_id))
        /\ UNCHANGED <<otherVars, discord_bot, running, tasks, channels, notes, sent, now>>

\* ------------------------------------------------- cancel_user_reminders
RECURSIVE CancelAll(_, _)
CancelAll(st, job_ids) ==
    IF job_ids = {} THEN st
    ELSE LET j == CHOOSE x \in job_ids : TRUE
         IN  CancelAll(CancelOne(st, j), job_ids \ {j})

cancel_user_reminders(user_id) ==
    LET st == CancelAll(SchedulerState, LiveJobsOf(reminder_callbacks, user_id))
    IN  /\ reminder_callbacks' = st.cb
        /\ jobstore' = st.js
        /\ user_reminder_counts' = st.counts
        /\ last' = Call("cancel_user", NoJobId, NoJobId,
                         IF st.n > 0 THEN "some" ELSE "nothing")
        /\ UNCHANGED <<otherVars, discord_bot, running, tasks, channels, notes, sent, now>>

\* ---------------------------------------------------------- fire handler
\* value=note_text + ("..." if len(note_text) == 100 else "")
RenderNoteText(note_text) ==
    IF Len(note_text) = NoteTextLimit
    THEN note_text \o <<".", ".", ".">>
    ELSE note_text

\* Which way _send_reminder goes for job_id in the current state.
\*   nometa     line 155-157: no metadata, return
\*   nobot      line 165-167: no bot instance, return
\*   nochannel  line 170-173: channel not resolved, return
\*   nameerror  line 176: discord.Embed raises NameError, the name discord
\*              is not bound in the module; the except branch cleans up
\*   sent       line 198-208: delivery, then clean up
SendPath(job_id) ==
    IF job_id \notin DOMAIN reminder_callbacks THEN "nometa"
    ELSE IF ~discord_bot THEN "nobot"
    ELSE IF reminder_callbacks[job_id].channel_id \notin channels THEN "nochannel"
    ELSE IF "discord" \notin ModuleGlobals THEN "nameerror"
    ELSE "sent"

\* The body of _send_reminder(job_id), without the event-loop bookkeeping.
send_reminder(job_id) ==
    LET path == SendPath(job_id)
        info == reminder_callbacks[job_id]
    IN  /\ IF path \in {"nameerror", "sent"}
           THEN LET c == cleanup_reminder(reminder_callbacks, user_reminder_counts,
                                          job_id, info.user_id)
                IN  /\ reminder_callbacks' = c.cb
                    /\ user_reminder_counts' = c.counts
           ELSE UNCHANGED <<reminder_callbacks, user_reminder_counts>>
        /\ IF path = "sent"
           THEN sent' = Append(sent, [job |-> job_id,
                                      channel_id |-> info.channel_id,
                                      user_id |-> info.user_id,
                                      note_id |-> info.note_id,
                                      note_text |-> RenderNoteText(info.note_text)])
           ELSE UNCHANGED sent
        /\ last' = Call("fire", job_id, NoJobId, path)

\* ---------------------------------------------------------- timer engine
\* AsyncIOScheduler with a date trigger: a due job leaves the job store and,
\* unless an instance of it is still pending (max_instances = 1), a task
\* running the job is created on the event loop.
Due(job_id) ==
    /\ running
    /\ job_id \in DOMAIN jobstore
    /\ jobstore[job_id] <= now

ProcessJobs(job_id) ==
    /\ Due(job_id)
    /\ jobstore' = Drop(jobstore, job_id)
    /\ tasks' = IF job_id \in DOMAIN tasks
                THEN tasks
                ELSE Put(tasks, job_id, jobstore[job_id])
    /\ UNCHANGED <<otherVars, reminder_callbacks, user_reminder_counts, discord_bot, running,
                   channels, notes, sent, now, last>>

\* The task runs: a run time later than misfire_grace_time is skipped as
\* missed, otherwise the job function _send_reminder is called.
Missed(run_time) == (now - run_time) * TickSeconds > MisfireGraceTime

RunJob(job_id) ==
    /\ job_id \in DOMAIN tasks
    /\ tasks' = Drop(tasks, job_id)
    /\ IF Missed(tasks[job_id])
       THEN /\ last' = Call("fire", job_id, NoJobId, "missed")
            /\ UNCHANGED <<reminder_callbacks, user_reminder_counts, sent>>
       ELSE send_reminder(job_id)
    /\ UNCHANGED <<otherVars, discord_bot, running, jobstore, channels, notes, now>>

\* ------------------------------------------------------ scheduler set-up
\* discord_bot.py, on_ready: scheduler.set_discord_bot(bot) and then
\* scheduler.start(), with no await between the two.  Commands that arrive
\* earlier schedule into a timer engine that is not running yet.
on_ready ==
    /\ ~running
    /\ discord_bot' = TRUE
    /\ running' = TRUE
    /\ UNCHANGED <<otherVars, reminder_callbacks, user_reminder_counts, jobstore,
                   tasks, channels, notes, sent, now, last>>

\* ----------------------------------------------------------- environment
\* db.add_note / db.delete_note on the note store
add_note(note_id, note_text) ==
    /\ notes[note_id] = NoRow
    /\ notes' = [notes EXCEPT ![note_id] =
                    [present |-> TRUE, deleted |-> FALSE, note_text |-> note_text]]
    /\ UNCHANGED <<otherVars, reminder_callbacks, user_reminder_counts, discord_bot, running,
                   jobstore, tasks, channels, sent, now, last>>

delete_note(note_id) ==
    /\ notes[note_id].present
    /\ notes' = [notes EXCEPT ![note_id] = DeletedRow]
    /\ UNCHANGED <<otherVars, reminder_callbacks, user_reminder_counts, discord_bot, running,
                   jobstore, tasks, channels, sent, now, last>>

\* a channel is deleted or leaves the bot's cache: get_channel returns None
ChannelGone(channel_id) ==
    /\ channel_id \in channels
    /\ channels' = channels \ {channel_id}
    /\ UNCHANGED <<otherVars, reminder_callbacks, user_reminder_counts, discord_bot, running,
                   jobstore, tasks, notes, sent, now, last>>

\* The clock advances.  A running timer engine wakes up at a job's run time
\* and the event loop runs a created task at once, so time does not pass
\* while a job is due or a task is pending.
Tick ==
    /\ now < MaxTime
    /\ tasks = <<>>
    /\ \A j \in DOMAIN jobstore : ~Due(j)
    /\ now' = now + 1
    /\ UNCHANGED <<otherVars, reminder_callbacks, user_reminder_counts, discord_bot, running,
                   jobstore, tasks, channels, notes, sent, last>>

Next ==
    \/ \E u \in Users, n \in NoteIds, t \in FireTimes, c \in Channels :
          schedule_reminder(u, n, t, c, NoJobId)
    \/ \E j \in JobIds : cancel_reminder(j)
    \/ \E u \in Users : cancel_user_reminders(u)
    \/ \E j \in JobIds : ProcessJobs(j)
    \/ \E j \in JobIds : RunJob(j)
    \/ on_ready
    \/ \E n \in NoteIds : add_note(n, TextOf(n))
    \/ \E n \in NoteIds : delete_note(n)
    \/ \E c \in Channels : ChannelGone(c)
    \/ Tick

Spec == Init /\ [][Next]_vars

\* ==================================================== get_user_reminders
\* get_user_reminders is a pure function of reminder_callbacks.  It is
\* checked on the maps that schedule_reminder calls can build when fire
\* times are datetimes with a wall-clock hour and either a UTC offset (an
\* aware datetime) or none (a naive one, which the timer engine reads in
\* the scheduler's timezone).
MaxListUser == 2
MaxListed == 3
MaxWallHour == 10
MaxUtcOffset == 1
\* config.py: REMINDER_TIMEZONE defaults to 'UTC', offset 0
SchedulerUtcOffset == 0

ListUsers == 1..MaxListUser
WallHours == (MaxWallHour - 2)..MaxWallHour
UtcOffsets == (0 - MaxUtcOffset)..MaxUtcOffset

\* the reminder_time argument: same day, whole hours
DateTimes ==
    [wall : WallHours, aware : {TRUE}, utcoffset : UtcOffsets]
    \cup [wall : WallHours, aware : {FALSE}, utcoffset : {0}]

\* the instant at which the job fires, in hours UTC
Instant(dt) ==
    dt.wall - (IF dt.aware THEN dt.utcoffset ELSE SchedulerUtcOffset)

\* ord() of a decimal digit
Digit(d) == 48 + d

\* reminder_time.isoformat(), as the sequence of the code points of the
\* characters that differ between two fire times of the same day: "HH",
\* then "+HH" or "-HH" for an aware datetime and nothing for a naive one
\* (the date before and the ":MM:SS" / ":MM" between and after have the
\* same length and content in all of them).
isoformat(dt) ==
    <<Digit(dt.wall \div 10), Digit(dt.wall % 10)>>
    \o (IF dt.aware
        THEN LET a == IF dt.utcoffset < 0 THEN 0 - dt.utcoffset ELSE dt.utcoffset
             IN  <<IF dt.utcoffset < 0 THEN 45 ELSE 43,
                   Digit(a \div 10), Digit(a % 10)>>
        ELSE <<>>)

\* Python's str "<": code point by code point, a proper prefix is smaller
RECURSIVE StrLess(_, _)
StrLess(a, b) ==
    IF b = <<>> THEN FALSE
    ELSE IF a = <<>> THEN TRUE
    ELSE IF Head(a) # Head(b) THEN Head(a) < Head(b)
    ELSE StrLess(Tail(a), Tail(b))

\* The entry schedule_reminder stores for (user_id, note 1, dt), under the
\* id derived from int(reminder_time.timestamp()).
ListJobId(user_id, dt) == DerivedJobId(user_id, 1, Instant(dt))
ListEntry(user_id, dt) ==
    [user_id |-> user_id, note_id |-> 1, channel_id |-> 1,
     reminder_time |-> isoformat(dt), note_text |-> Truncate(ShortText)]

RECURSIVE SubsetsUpTo(_, _)
SubsetsUpTo(S, k) ==
    IF k = 0 THEN {{}}
    ELSE LET P == SubsetsUpTo(S, k - 1)
         IN  P \cup {p \cup {x} : p \in P, x \in S}

\* sets of schedule_reminder calls with pairwise different job ids
ListInputs ==
    {D \in SubsetsUpTo(ListUsers \X DateTimes, MaxListed) :
        \A p, q \in D : ListJobId(p[1], p[2]) = ListJobId(q[1], q[2]) => p = q}

CallbacksOf(D) ==
    [j \in {ListJobId(p[1], p[2]) : p \in D} |->
        LET p == CHOOSE q \in D : ListJobId(q[1], q[2]) = j
        IN  ListEntry(p[1], p[2])]

ListInit ==
    /\ \E D \in ListInputs :
          /\ reminder_callbacks = CallbacksOf(D)
          /\ jobstore = [j \in DOMAIN CallbacksOf(D) |-> j[3]]
          /\ user_reminder_counts =
                [u \in ListUsers |-> Cardinality(LiveJobsOf(CallbacksOf(D), u))]
    /\ discord_bot = TRUE
    /\ running = TRUE
    /\ tasks = <<>>
    /\ channels = Channels
    /\ notes = [n \in NoteIds |->
                   IF n = 1 THEN [present |-> TRUE, deleted |-> FALSE,
                                  note_text |-> ShortText]
                   ELSE NoRow]
    /\ sent = <<>>
    /\ now = 0
    /\ last = NoCall
    /\ listing = NoListing
    /\ LimiterIdle
    /\ CommandLimiterIdle
    /\ DispatchIdle
    /\ DatabaseIdle
    /\ ParserIdle
    /\ FireIdle
    /\ InfoIdle
    /\ SecurityIdle
    /\ ActivityIdle

\* one element of the list get_user_reminders returns
ListedReminder(cb, job_id) ==
    [job_id |-> job_id, note_id |-> cb[job_id].note_id,
     reminder_time |-> cb[job_id].reminder_time,
     note_text |-> cb[job_id].note_text]

\* user_reminders.sort(key=lambda x: x['reminder_time']): the orders of the
\* user's entries in which no element has a smaller key than one before it
\* (entries with equal keys keep their insertion order, which the map does
\* not record, so either order is possible)
SortedByReminderTime(cb, J) ==
    {s \in [1..Cardinality(J) -> J] :
        /\ \A i, k \in 1..Cardinality(J) : s[i] = s[k] => i = k
        /\ \A i, k \in 1..Cardinality(J) :
              i < k => ~StrLess(cb[s[k]].reminder_time, cb[s[i]].reminder_time)}

get_user_reminders(user_id) ==
    /\ \E s \in SortedByReminderTime(reminder_callbacks,
                                     LiveJobsOf(reminder_callbacks, user_id)) :
          listing' = [user_id |-> user_id,
                      reminders |-> [i \in DOMAIN s |->
                                        ListedReminder(reminder_callbacks, s[i])]]
    /\ UNCHANGED <<reminder_callbacks, user_reminder_counts, discord_bot, running,
                   jobstore, tasks, channels, notes, sent, now, last, limiterVars,
                   commandLimiterVars, dispatchVars,
                   databaseVars, restVars>>

ListNext == \E u \in ListUsers : get_user_reminders(u)

SpecList == ListInit /\ [][ListNext]_vars

\* ============================================================ RateLimiter
\* One RateLimiter(bucket_size, window_size) called by several threads.
\* _cleanup_expired runs its whole body under the lock.  is_allowed then
\* takes the lock again, and the length check and the append are two steps
\* inside that critical section.
bucket_size == 2
window_size == 2
\* config.py: RATE_LIMIT_ENABLED defaults to 'true'
RATE_LIMIT_ENABLED == TRUE

schedulerVars == <<reminder_callbacks, user_reminder_counts, discord_bot, running,
                   jobstore, tasks, channels, notes, sent, now, last>>

\* while bucket and bucket[0] < current_time - window_size: bucket.popleft()
RECURSIVE PopExpired(_, _, _)
PopExpired(bucket, current_time, window) ==
    IF bucket # <<>> /\ Head(bucket) < current_time - window
    THEN PopExpired(Tail(bucket), current_time, window)
    ELSE bucket

\* a _cleanup_expired that removes nothing
cleanup_expired_none(bucket, current_time, window) == bucket

\* _cleanup_expired, on one bucket
cleanup_expired(bucket, current_time, window) ==
    PopExpired(bucket, current_time, window)

\* a retry_after that is not floored at 0
RetryAfterUnfloored(bucket, current_time, window) ==
    window - (current_time - Head(bucket))

\* max(0, window_size - (current_time - oldest_request))
RetryAfter(bucket, current_time, window) ==
    LET retry_after == window - (current_time - Head(bucket))
    IN  IF retry_after > 0 THEN retry_after ELSE 0

\* a lock that every thread can take at any time
LockFreeAlways == TRUE

\* threading.Lock: "with self.lock" waits until no thread holds it
LockFree == lock = 0

\* is_allowed(key) is called by thread t; _cleanup_expired reads the time
\* (line 32) before it waits for the lock
RLCall(t, key) ==
    /\ pc[t] = "idle"
    /\ IF RATE_LIMIT_ENABLED
       THEN /\ pc' = [pc EXCEPT ![t] = "cleanup"]
            /\ frame' = [frame EXCEPT ![t] =
                            [NoFrame EXCEPT !.key = key, !.cleanup_time = wallclock]]
            /\ UNCHANGED result
       ELSE /\ result' = [result EXCEPT ![t] =
                            [allowed |-> TRUE, retry_after |-> 0, returned |-> TRUE]]
            /\ UNCHANGED <<pc, frame>>
    /\ UNCHANGED <<buckets, lock, admitted, wallclock>>
    /\ UNCHANGED <<restVars, schedulerVars, listing, commandLimiterVars, dispatchVars,
                   databaseVars>>

\* self._cleanup_expired(key): the with-block, lines 33-36
RLCleanup(t) ==
    /\ pc[t] = "cleanup"
    /\ LockFree
    /\ buckets' = [buckets EXCEPT ![frame[t].key] =
                      cleanup_expired(@, frame[t].cleanup_time, window_size)]
    /\ pc' = [pc EXCEPT ![t] = "acquire"]
    /\ UNCHANGED <<lock, frame, result, admitted, wallclock>>
    /\ UNCHANGED <<restVars, schedulerVars, listing, commandLimiterVars, dispatchVars,
                   databaseVars>>

\* is_allowed: with self.lock
RLAcquire(t) ==
    /\ pc[t] = "acquire"
    /\ LockFree
    /\ lock' = t
    /\ pc' = [pc EXCEPT ![t] = "check"]
    /\ UNCHANGED <<buckets, frame, result, admitted, wallclock>>
    /\ UNCHANGED <<restVars, schedulerVars, listing, commandLimiterVars, dispatchVars,
                   databaseVars>>

\* is_allowed: current_time = time.time(); if len(bucket) >= bucket_size
RLCheck(t) ==
    /\ pc[t] = "check"
    /\ IF Len(buckets[frame[t].key]) >= bucket_size
       THEN /\ result' = [result EXCEPT ![t] =
                  [allowed |-> FALSE,
                   retry_after |-> RetryAfter(buckets[frame[t].key], wallclock,
                                              window_size),
                   returned |-> TRUE]]
            /\ lock' = 0
            /\ pc' = [pc EXCEPT ![t] = "idle"]
            /\ frame' = [frame EXCEPT ![t] = NoFrame]
       ELSE /\ frame' = [frame EXCEPT ![t].current_time = wallclock]
            /\ pc' = [pc EXCEPT ![t] = "append"]
            /\ UNCHANGED <<result, lock>>
    /\ UNCHANGED <<buckets, admitted, wallclock>>
    /\ UNCHANGED <<restVars, schedulerVars, listing, commandLimiterVars, dispatchVars,
                   databaseVars>>

\* is_allowed: bucket.append(current_time); return True, 0.0
RLAppend(t) ==
    /\ pc[t] = "append"
    /\ buckets' = [buckets EXCEPT ![frame[t].key] = Append(@, frame[t].current_time)]
    /\ admitted' = [admitted EXCEPT ![frame[t].key] = Append(@, frame[t].current_time)]
    /\ result' = [result EXCEPT ![t] =
                     [allowed |-> TRUE, retry_after |-> 0, returned |-> TRUE]]
    /\ lock' = 0
    /\ pc' = [pc EXCEPT ![t] = "idle"]
    /\ frame' = [frame EXCEPT ![t] = NoFrame]
    /\ UNCHANGED wallclock
    /\ UNCHANGED <<restVars, schedulerVars, listing, commandLimiterVars, dispatchVars,
                   databaseVars>>

\* a second passes
RLTick ==
    /\ wallclock < MaxClock
    /\ wallclock' = wallclock + 1
    /\ UNCHANGED <<buckets, lock, pc, frame, result, admitted>>
    /\ UNCHANGED <<restVars, schedulerVars, listing, commandLimiterVars, dispatchVars,
                   databaseVars>>

RLNext ==
    \/ \E t \in Threads, k \in Keys : RLCall(t, k)
    \/ \E t \in Threads : RLCleanup(t)
    \/ \E t \in Threads : RLAcquire(t)
    \/ \E t \in Threads : RLCheck(t)
    \/ \E t \in Threads : RLAppend(t)
    \/ RLTick

SpecRL == Init /\ [][RLNext]_vars

\* ---------------------------------------------------- get_bucket_info
\* get_bucket_info(key) is called by thread t; like is_allowed it starts
\* with self._cleanup_expired(key), which reads the time (line 32) before
\* it waits for the lock.
RLInfoCall(t, key) ==
    /\ pc[t] = "idle"
    /\ pc' = [pc EXCEPT ![t] = "info_cleanup"]
    /\ frame' = [frame EXCEPT ![t] =
                    [NoFrame EXCEPT !.key = key, !.cleanup_time = wallclock]]
    /\ UNCHANGED <<buckets, lock, result, admitted, wallclock>>
    /\ UNCHANGED <<restVars, schedulerVars, listing, commandLimiterVars, dispatchVars,
                   databaseVars>>

\* get_bucket_info: self._cleanup_expired(key), the with-block of lines 33-36
RLInfoCleanup(t) ==
    /\ pc[t] = "info_cleanup"
    /\ LockFree
    /\ buckets' = [buckets EXCEPT ![frame[t].key] =
                      cleanup_expired(@, frame[t].cleanup_time, window_size)]
    /\ pc' = [pc EXCEPT ![t] = "info_read"]
    /\ UNCHANGED <<lock, frame, result, admitted, wallclock>>
    /\ UNCHANGED <<restVars, schedulerVars, listing, commandLimiterVars, dispatchVars,
                   databaseVars>>

\* a get_bucket_info that reports the free places of an empty bucket
BucketInfoOfEmpty(key, bucket, current_time) ==
    [key |-> key,
     current_requests |-> Len(bucket),
     max_requests |-> bucket_size,
     window_size |-> window_size,
     remaining_requests |-> bucket_size,
     reset_time |-> current_time]

\* the dict get_bucket_info returns, lines 75-81
BucketInfo(key, bucket, current_time) ==
    [key |-> key,
     current_requests |-> Len(bucket),
     max_requests |-> bucket_size,
     window_size |-> window_size,
     remaining_requests |-> IF bucket_size - Len(bucket) > 0
                            THEN bucket_size - Len(bucket) ELSE 0,
     reset_time |-> IF bucket # <<>> THEN current_time + window_size
                    ELSE current_time]

\* get_bucket_info: the with-block of lines 71-81.  It takes the lock,
\* reads the bucket and the time, builds the dict and releases the lock;
\* it writes nothing, so the block is one step.
RLInfoRead(t) ==
    /\ pc[t] = "info_read"
    /\ LockFree
    /\ bucket_info' = BucketInfo(frame[t].key, buckets[frame[t].key], wallclock)
    /\ pc' = [pc EXCEPT ![t] = "idle"]
    /\ frame' = [frame EXCEPT ![t] = NoFrame]
    /\ UNCHANGED <<buckets, lock, result, admitted, wallclock>>
    /\ UNCHANGED <<parserVars, fireVars, securityVars, activityVars, schedulerVars, listing,
                   commandLimiterVars, dispatchVars, databaseVars>>

\* the keys the threads of the get_bucket_info runs ask about
InfoKeys == {1}

InfoNext ==
    \/ \E t \in Threads, k \in InfoKeys : RLCall(t, k)
    \/ \E t \in Threads : RLCleanup(t)
    \/ \E t \in Threads : RLAcquire(t)
    \/ \E t \in Threads : RLCheck(t)
    \/ \E t \in Threads : RLAppend(t)
    \/ \E t \in Threads, k \in InfoKeys : RLInfoCall(t, k)
    \/ \E t \in Threads : RLInfoCleanup(t)
    \/ \E t \in Threads : RLInfoRead(t)
    \/ RLTick

SpecInfo == Init /\ [][InfoNext]_vars

\* ===================================================== CommandRateLimiter
\* The callers run on the event loop, one call at a time, so a call is one
\* step.  Inside it the clock is read twice, by _cleanup_expired and by
\* is_allowed, and a second may pass between the two reads.
\* config.py: RATE_LIMIT_BUCKET_SIZE (default 10) and RATE_LIMIT_WINDOW
\* (default 60) are read from the environment; the model runs the
\* configuration 2 and 1.
RATE_LIMIT_BUCKET_SIZE == 2
RATE_LIMIT_WINDOW == 1
\* config.py: COMMAND_COOLDOWNS, read from the environment (defaults
\* add 5, list 3); the model runs ADD_COOLDOWN=1, LIST_COOLDOWN=2.
COMMAND_COOLDOWNS == [c \in Commands |-> IF c = "add" THEN 1 ELSE 2]
\* COMMAND_COOLDOWNS.get(command, 3)
DefaultCooldown == 3
CooldownOf(command) ==
    IF command \in DOMAIN COMMAND_COOLDOWNS THEN COMMAND_COOLDOWNS[command]
    ELSE DefaultCooldown

\* f"user:{user_id}:command:{command}" without the user id
user_command_key_without_user(user_id, command) == <<"user", 0, "command", command>>

\* f"user:{user_id}:command:{command}"
get_user_command_key(user_id, command) == <<"user", user_id, "command", command>>

\* f"user:{user_id}:general"
get_user_key(user_id) == <<"user", user_id, "general">>

\* RateLimiter(bucket_size=b, window_size=w)
RateLimiter(b, w) == [bucket_size |-> b, window_size |-> w, buckets |-> <<>>]

\* self.buckets[key] of a defaultdict(deque)
BucketOf(limiter, key) ==
    IF key \in DOMAIN limiter.buckets THEN limiter.buckets[key] ELSE <<>>

\* RateLimiter.is_allowed(key) as one step: _cleanup_expired with the clock
\* reading cleanup_time, then the check and the append with the reading
\* current_time.  Gives the limiter afterwards and the returned pair.
is_allowed(limiter, key, cleanup_time, current_time) ==
    IF ~RATE_LIMIT_ENABLED
    THEN [limiter |-> limiter, allowed |-> TRUE, retry_after |-> 0]
    ELSE LET bucket == cleanup_expired(BucketOf(limiter, key), cleanup_time,
                                       limiter.window_size)
         IN  IF Len(bucket) >= limiter.bucket_size
             THEN [limiter |-> [limiter EXCEPT !.buckets = Put(@, key, bucket)],
                   allowed |-> FALSE,
                   retry_after |-> RetryAfter(bucket, current_time,
                                              limiter.window_size)]
             ELSE [limiter |-> [limiter EXCEPT !.buckets =
                                   Put(@, key, Append(bucket, current_time))],
                   allowed |-> TRUE,
                   retry_after |-> 0]

\* "if name not in self.rate_limiters: self.rate_limiters[name] = ..."
GetOrCreate(limiters, name, b, w) ==
    IF name \in DOMAIN limiters THEN limiters[name] ELSE RateLimiter(b, w)

\* the clock readings of one call: the second is the first or a second later
MaxCmdClock == 2
ClockReadings ==
    {r \in (0..MaxCmdClock) \X (0..MaxCmdClock) :
        r[1] = wallclock /\ r[2] \in {wallclock, wallclock + 1}}


\* CommandRateLimiter.is_command_allowed(user_id, command), on a given map
\* of limiters
CommandAllowed(limiters, user_id, command, r) ==
    is_allowed(GetOrCreate(limiters, command, 1, CooldownOf(command)),
               get_user_command_key(user_id, command), r[1], r[2])

\* CommandRateLimiter.is_user_allowed(user_id), on a given map of limiters
UserAllowed(limiters, user_id, r) ==
    is_allowed(GetOrCreate(limiters, "general", RATE_LIMIT_BUCKET_SIZE,
                           RATE_LIMIT_WINDOW),
               get_user_key(user_id), r[1], r[2])

is_command_allowed(user_id, command) ==
    \E r \in ClockReadings :
        LET res == CommandAllowed(rate_limiters, user_id, command, r)
        IN  /\ rate_limiters' = Put(rate_limiters, command, res.limiter)
            /\ cmd_admitted' =
                   IF res.allowed
                   THEN [cmd_admitted EXCEPT ![user_id, command] = Append(@, r[2])]
                   ELSE cmd_admitted
            /\ cmd_last' = [op |-> "command", user_id |-> user_id,
                            command |-> command, cleanup_time |-> r[1],
                            current_time |-> r[2], allowed |-> res.allowed,
                            retry_after |-> res.retry_after]
            /\ wallclock' = r[2]
            /\ UNCHANGED <<buckets, lock, pc, frame, result, admitted>>
            /\ UNCHANGED <<restVars, schedulerVars, listing, dispatchVars, databaseVars>>

is_user_allowed(user_id) ==
    \E r \in ClockReadings :
        LET res == UserAllowed(rate_limiters, user_id, r)
        IN  /\ rate_limiters' = Put(rate_limiters, "general", res.limiter)
            /\ cmd_last' = [op |-> "user", user_id |-> user_id,
                            command |-> "none", cleanup_time |-> r[1],
                            current_time |-> r[2], allowed |-> res.allowed,
                            retry_after |-> res.retry_after]
            /\ wallclock' = r[2]
            /\ UNCHANGED cmd_admitted
            /\ UNCHANGED <<buckets, lock, pc, frame, result, admitted>>
            /\ UNCHANGED <<restVars, schedulerVars, listing, dispatchVars, databaseVars>>

\* a second passes between two calls
CmdTick ==
    /\ wallclock < MaxCmdClock
    /\ wallclock' = wallclock + 1
    /\ UNCHANGED <<buckets, lock, pc, frame, result, admitted>>
    /\ UNCHANGED <<restVars, schedulerVars, listing, commandLimiterVars, dispatchVars,
                   databaseVars>>

CmdNext ==
    \/ \E u \in LimitedUsers, c \in Commands : is_command_allowed(u, c)
    \/ \E u \in LimitedUsers : is_user_allowed(u)
    \/ CmdTick

SpecCmd == Init /\ [][CmdNext]_vars

\* ======================================================= Discord dispatch
\* SecurityManager.block_user, unblock_user, add_allowed_guild and
\* remove_allowed_guild are never called by the bot, so allowed_guilds and
\* blocked_users keep the values __init__ gives them unless some other
\* operation writes them.
\* an is_guild_allowed for which an empty allow-list allows no guild
is_guild_allowed_closed(guild_id) == guild_id \in allowed_guilds

\* SecurityManager.is_guild_allowed
is_guild_allowed(guild_id) ==
    IF allowed_guilds = {} THEN TRUE ELSE guild_id \in allowed_guilds

\* SecurityManager.is_user_blocked
is_user_blocked(user_id) == user_id \in blocked_users

\* the dict record_command_usage hands to record_suspicious_activity, with
\* the timestamp record_suspicious_activity adds
Activity(timestamp, command, guild_id) ==
    [timestamp |-> timestamp, type |-> "command_failure",
     command |-> command, guild_id |-> guild_id]

\* lst[-n:]
LastN(lst, n) ==
    IF Len(lst) > n THEN SubSeq(lst, Len(lst) - n + 1, Len(lst)) ELSE lst

\* a record_suspicious_activity that blocks a user at the third record
record_suspicious_activity_autoblock(security, user_id, activity) ==
    LET appended == Append(security.suspicious_activity[user_id], activity)
    IN  [security EXCEPT
            !.suspicious_activity[user_id] = LastN(appended, ActivitiesKept),
            !.blocked_users = IF Len(appended) >= 3
                              THEN @ \cup {user_id} ELSE @]

\* SecurityManager.record_suspicious_activity(user_id, activity_type,
\* details) on the security state [allowed_guilds, blocked_users,
\* suspicious_activity]: append, then keep the last 10 of the user
record_suspicious_activity(security, user_id, activity) ==
    LET appended == Append(security.suspicious_activity[user_id], activity)
    IN  [security EXCEPT
            !.suspicious_activity[user_id] =
                IF Len(appended) > ActivitiesKept
                THEN LastN(appended, ActivitiesKept)
                ELSE appended]

SecurityState ==
    [allowed_guilds |-> allowed_guilds, blocked_users |-> blocked_users,
     suspicious_activity |-> suspicious_activity]

\* SecurityMiddleware.record_command_usage(ctx, command, success), on the
\* security state
command_usage(security, user_id, command, guild_id, success, timestamp) ==
    IF ~success
    THEN record_suspicious_activity(security, user_id,
                                    Activity(timestamp, command, guild_id))
    ELSE security

\* a check_permissions that tests the guild before the block list
check_permissions_guild_first(user_id, guild_id) ==
    IF guild_id # NoGuild /\ ~is_guild_allowed(guild_id)
    THEN [has_permission |-> FALSE,
          error_msg |-> "This bot is not available in this server."]
    ELSE IF is_user_blocked(user_id)
    THEN [has_permission |-> FALSE,
          error_msg |-> "You are blocked from using this bot."]
    ELSE [has_permission |-> TRUE, error_msg |-> ""]

\* SecurityMiddleware.check_permissions(ctx)
check_permissions(user_id, guild_id) ==
    IF is_user_blocked(user_id)
    THEN [has_permission |-> FALSE,
          error_msg |-> "You are blocked from using this bot."]
    ELSE IF guild_id # NoGuild /\ ~is_guild_allowed(guild_id)
    THEN [has_permission |-> FALSE,
          error_msg |-> "This bot is not available in this server."]
    ELSE [has_permission |-> TRUE, error_msg |-> ""]

\* the clock readings of a call that starts at time t
ReadingsFrom(t) ==
    {r \in (0..MaxCmdClock) \X (0..MaxCmdClock) :
        r[1] = t /\ r[2] \in {t, t + 1}}

\* a check_rate_limits that asks the command's limiter first and the
\* general limiter only if the command's limiter admits
check_rate_limits_command_first(limiters, user_id, command, g, c) ==
    LET specific == CommandAllowed(limiters, user_id, command, g)
        after_specific == Put(limiters, command, specific.limiter)
        general == UserAllowed(after_specific, user_id, c)
    IN  IF ~specific.allowed
        THEN [limiters |-> after_specific, rate_allowed |-> FALSE,
              retry_after |-> specific.retry_after, command_asked |-> TRUE,
              last |-> [op |-> "command", user_id |-> user_id,
                        command |-> command, cleanup_time |-> g[1],
                        current_time |-> g[2], allowed |-> FALSE,
                        retry_after |-> specific.retry_after],
              time |-> g[2]]
        ELSE [limiters |-> Put(after_specific, "general", general.limiter),
              rate_allowed |-> general.allowed,
              retry_after |-> general.retry_after, command_asked |-> TRUE,
              last |-> [op |-> "user", user_id |-> user_id,
                        command |-> "none", cleanup_time |-> c[1],
                        current_time |-> c[2], allowed |-> general.allowed,
                        retry_after |-> general.retry_after],
              time |-> c[2]]

\* a check_rate_limits that gives the general slot back when the command's
\* limiter rejects
check_rate_limits_refund(limiters, user_id, command, g, c) ==
    LET general == UserAllowed(limiters, user_id, g)
        after_general == Put(limiters, "general", general.limiter)
        specific == CommandAllowed(after_general, user_id, command, c)
        refunded == limiters
    IN  IF ~general.allowed
        THEN [limiters |-> after_general, rate_allowed |-> FALSE,
              retry_after |-> general.retry_after, command_asked |-> FALSE,
              last |-> [op |-> "user", user_id |-> user_id,
                        command |-> "none", cleanup_time |-> g[1],
                        current_time |-> g[2], allowed |-> FALSE,
                        retry_after |-> general.retry_after],
              time |-> g[2]]
        ELSE [limiters |-> Put(IF specific.allowed THEN after_general
                               ELSE refunded, command, specific.limiter),
              rate_allowed |-> specific.allowed,
              retry_after |-> specific.retry_after, command_asked |-> TRUE,
              last |-> [op |-> "command", user_id |-> user_id,
                        command |-> command, cleanup_time |-> c[1],
                        current_time |-> c[2], allowed |-> specific.allowed,
                        retry_after |-> specific.retry_after],
              time |-> c[2]]

\* SecurityMiddleware.check_rate_limits(ctx, command): the general limiter
\* first and, only if it admits, the command's limiter.  g and c are the
\* clock readings of the two calls.
check_rate_limits(limiters, user_id, command, g, c) ==
    LET general == UserAllowed(limiters, user_id, g)
        after_general == Put(limiters, "general", general.limiter)
        specific == CommandAllowed(after_general, user_id, command, c)
    IN  IF ~general.allowed
        THEN [limiters |-> after_general, rate_allowed |-> FALSE,
              retry_after |-> general.retry_after, command_asked |-> FALSE,
              last |-> [op |-> "user", user_id |-> user_id,
                        command |-> "none", cleanup_time |-> g[1],
                        current_time |-> g[2], allowed |-> FALSE,
                        retry_after |-> general.retry_after],
              time |-> g[2]]
        ELSE [limiters |-> Put(after_general, command, specific.limiter),
              rate_allowed |-> specific.allowed,
              retry_after |-> specific.retry_after, command_asked |-> TRUE,
              last |-> [op |-> "command", user_id |-> user_id,
                        command |-> command, cleanup_time |-> c[1],
                        current_time |-> c[2], allowed |-> specific.allowed,
                        retry_after |-> specific.retry_after],
              time |-> c[2]]

\* on_message never passes a blocked author's message on
on_message_passes_blocked(author) == FALSE

\* on_message: "if ...is_user_blocked(message.author.id): return"
on_message_ignores(author) == is_user_blocked(author)

\* on_message(message), for a message that invokes a registered command.
\* A blocked author's message is dropped; any other goes to
\* bot.process_commands, which dispatches the 'command' event (the on_command
\* listener becomes a task of its own) and then invokes the command.
on_message(m, author, guild, command) ==
    /\ messages[m] = NoMessage
    /\ \A k \in Messages : k < m => messages[k] # NoMessage
    /\ messages' = [messages EXCEPT ![m] =
           IF on_message_ignores(author)
           THEN [author |-> author, guild |-> guild, command |-> command,
                 listener |-> "none", handler |-> "none"]
           ELSE [author |-> author, guild |-> guild, command |-> command,
                 listener |-> "pending", handler |-> "pending"]]
    /\ UNCHANGED <<restVars, schedulerVars, listing, limiterVars, commandLimiterVars,
                   databaseVars>>

\* the on_command listener of message m runs: permissions, then rate limits;
\* on a refusal it sends the error text, calls
\* record_command_usage(ctx, command_name, False) and returns
on_command(m) ==
    LET msg == messages[m]
        perm == check_permissions(msg.author, msg.guild)
    IN  /\ msg.listener = "pending"
        /\ IF ~perm.has_permission
           THEN /\ messages' = [messages EXCEPT
                                   ![m].listener = "denied_permission"]
                /\ suspicious_activity' =
                       command_usage(SecurityState, msg.author, msg.command,
                                     msg.guild, FALSE, wallclock
                                    ).suspicious_activity
                /\ UNCHANGED <<commandLimiterVars, wallclock>>
           ELSE \E g \in ReadingsFrom(wallclock) : \E c \in ReadingsFrom(g[2]) :
                  LET res == check_rate_limits(rate_limiters, msg.author,
                                               msg.command, g, c)
                  IN  /\ rate_limiters' = res.limiters
                      /\ cmd_admitted' =
                           IF res.command_asked /\ res.rate_allowed
                           THEN [cmd_admitted EXCEPT
                                    ![msg.author, msg.command] = Append(@, c[2])]
                           ELSE cmd_admitted
                      /\ cmd_last' = res.last
                      /\ wallclock' = res.time
                      /\ messages' = [messages EXCEPT ![m].listener =
                             IF res.rate_allowed THEN "passed"
                             ELSE "denied_rate"]
                      /\ suspicious_activity' =
                             command_usage(SecurityState, msg.author,
                                           msg.command, msg.guild,
                                           res.rate_allowed, res.time
                                          ).suspicious_activity
        /\ UNCHANGED <<buckets, lock, pc, frame, result, admitted>>
        /\ UNCHANGED <<allowed_guilds, blocked_users, sec_last>>
        /\ UNCHANGED <<parserVars, fireVars, infoVars, activityVars, schedulerVars, listing,
                       databaseVars>>

\* ctx.command.invoke(ctx): the command's handler runs
invoke(m) ==
    /\ messages[m].handler = "pending"
    /\ messages' = [messages EXCEPT ![m].handler = "ran"]
    /\ UNCHANGED <<restVars, schedulerVars, listing, limiterVars, commandLimiterVars,
                   databaseVars>>

BotNext ==
    \/ \E m \in Messages, author \in LimitedUsers, guild \in Guilds,
          command \in Commands : on_message(m, author, guild, command)
    \/ \E m \in Messages : on_command(m)
    \/ \E m \in Messages : invoke(m)
    \/ CmdTick

SpecBot == Init /\ [][BotNext]_vars

\* ========================================================== NotesDatabase
\* The notes table, the result cache in front of get_notes and search_notes,
\* and the delete commands of the two front ends (each front end is a
\* program of its own).  A note's text is a
\* sequence of words and a search keyword one word; categories and pages
\* other than the first are left out (category None, page 1).
\* config.py: CACHE_TTL (default 300 s) is read from the environment; the
\* model runs CACHE_TTL=1.
CACHE_TTL == 1
CACHE_ENABLED == TRUE
NOTES_PER_PAGE == 10
MaxDbClock == 2
Texts == {<<"milk">>, <<"call", "mum">>}
Keywords == {"milk"}

\* note_text LIKE '%keyword%'
Like(note_text, keyword) == \E i \in 1..Len(note_text) : note_text[i] = keyword

\* _get_cache_key: the operation and the arguments, joined by ':'
get_cache_key(operation, args) == <<operation>> \o args

\* the cache keys get_notes and search_notes build
GetNotesKey(user_id) ==
    get_cache_key("get_notes",
                  <<ToString(user_id), "None", "1", ToString(NOTES_PER_PAGE)>>)
SearchNotesKey(user_id, keyword) ==
    get_cache_key("search_notes",
                  <<ToString(user_id), keyword, "1", ToString(NOTES_PER_PAGE)>>)

\* f"user_id:{user_id}" in key
KeyNamesUser(key, user_id) ==
    \E i \in 1..(Len(key) - 1) :
        key[i] = "user_id" /\ key[i + 1] = ToString(user_id)

\* the test _invalidate_user_cache applies to every key
InvalidatedKey(key, user_id) == KeyNamesUser(key, user_id)

\* NotesDatabase._invalidate_user_cache(user_id)
invalidate_user_cache(cache, user_id) ==
    IF ~CACHE_ENABLED THEN cache
    ELSE LET keep == {k \in DOMAIN cache : ~InvalidatedKey(k, user_id)}
         IN  [k \in keep |-> cache[k]]

\* Cache.get: the entry is dropped when older than the TTL
Expired(entry, current_time) == current_time - entry.timestamp > CACHE_TTL
CacheHit(cache, key, current_time) ==
    CACHE_ENABLED /\ key \in DOMAIN cache /\ ~Expired(cache[key], current_time)

\* Cache.set
CacheSet(cache, key, value, current_time) ==
    IF CACHE_ENABLED
    THEN Put(Drop(cache, key), key, [value |-> value, timestamp |-> current_time])
    ELSE cache

\* ids in descending order (ORDER BY created_at DESC: later notes first)
RECURSIVE Descending(_)
Descending(ids) ==
    IF ids = {} THEN <<>>
    ELSE LET m == CHOOSE x \in ids : \A y \in ids : y <= x
         IN  <<m>> \o Descending(ids \ {m})

\* LIMIT per_page OFFSET 0
FirstPage(seq) ==
    IF Len(seq) <= NOTES_PER_PAGE THEN seq ELSE SubSeq(seq, 1, NOTES_PER_PAGE)

Stored(table, note_id) ==
    note_id \in DOMAIN table /\ table[note_id].state = "stored"

\* SELECT ... WHERE user_id = ?: the first page and COUNT(*)
SelectNotes(table, user_id) ==
    LET ids == {n \in DOMAIN table :
                    Stored(table, n) /\ table[n].user_id = user_id}
    IN  [notes |-> FirstPage(Descending(ids)), total_count |-> Cardinality(ids)]

\* SELECT ... WHERE user_id = ? AND note_text LIKE ?
SelectMatching(table, user_id, keyword) ==
    LET ids == {n \in DOMAIN table :
                    /\ Stored(table, n)
                    /\ table[n].user_id = user_id
                    /\ Like(table[n].note_text, keyword)}
    IN  [notes |-> FirstPage(Descending(ids)), total_count |-> Cardinality(ids)]

\* NotesDatabase.get_note_by_id(note_id, user_id), user_id given and not 0
NotesDatabase_get_note_by_id(table, note_id, user_id) ==
    Stored(table, note_id) /\ table[note_id].user_id = user_id

\* DELETE FROM notes WHERE id = ? AND user_id = ?: rowcount > 0
DeleteMatches(table, note_id, user_id) ==
    Stored(table, note_id) /\ table[note_id].user_id = user_id

\* NotesDatabase.add_note(user_id, note_text, category)
NotesDatabase_add_note(user_id, note_text) ==
    \E note_id \in DbNoteIds :
        /\ db_notes[note_id] = NoDbRow
        /\ \A k \in DbNoteIds : k < note_id => db_notes[k] # NoDbRow
        /\ db_notes' = [db_notes EXCEPT ![note_id] =
               [state |-> "stored", user_id |-> user_id, note_text |-> note_text]]
        /\ db_cache' = invalidate_user_cache(db_cache, user_id)
        /\ db_last' = [NoDbCall EXCEPT !.op = "add_note",
                          !.requester = user_id, !.user_id = user_id,
                          !.note_id = note_id, !.success = TRUE]
        /\ UNCHANGED <<restVars, schedulerVars, listing, limiterVars, commandLimiterVars,
                       dispatchVars>>

\* the cached lookup get_notes and search_notes share
CachedQuery(op, user_id, keyword, key, fresh) ==
    LET hit == CacheHit(db_cache, key, wallclock)
        value == IF hit THEN db_cache[key].value ELSE fresh
    IN  /\ db_cache' = IF hit THEN db_cache
                       ELSE CacheSet(db_cache, key, fresh, wallclock)
        /\ db_last' = [NoDbCall EXCEPT !.op = op,
                          !.requester = user_id, !.user_id = user_id,
                          !.keyword = keyword,
                          !.success = TRUE, !.notes = value.notes,
                          !.total_count = value.total_count]
        /\ UNCHANGED db_notes
        /\ UNCHANGED <<restVars, schedulerVars, listing, limiterVars, commandLimiterVars,
                       dispatchVars>>

\* NotesDatabase.get_notes(user_id)
NotesDatabase_get_notes(user_id) ==
    CachedQuery("get_notes", user_id, "", GetNotesKey(user_id),
                SelectNotes(db_notes, user_id))

\* NotesDatabase.search_notes(user_id, keyword)
NotesDatabase_search_notes(user_id, keyword) ==
    CachedQuery("search_notes", user_id, keyword,
                SearchNotesKey(user_id, keyword),
                SelectMatching(db_notes, user_id, keyword))

\* NotesDatabase.delete_note(note_id, user_id): the table and the cache
\* afterwards, and the returned flag
NotesDatabase_delete_note(table, cache, note_id, user_id) ==
    LET success == DeleteMatches(table, note_id, user_id)
    IN  [table |-> IF success THEN [table EXCEPT ![note_id].state = "deleted"]
                   ELSE table,
         cache |-> IF success THEN invalidate_user_cache(cache, user_id)
                   ELSE cache,
         success |-> success]

\* discord_handlers.delete_note_command: !delete <note_id> by user_id
discord_delete_note_command(user_id, note_id) ==
    LET note == NotesDatabase_get_note_by_id(db_notes, note_id, user_id)
        res == NotesDatabase_delete_note(db_notes, db_cache, note_id, user_id)
    IN  /\ db_notes' = IF note THEN res.table ELSE db_notes
        /\ db_cache' = IF note THEN res.cache ELSE db_cache
        /\ db_last' = [NoDbCall EXCEPT !.op = "delete_note",
                          !.requester = user_id, !.requested = note_id,
                          !.user_id = user_id, !.note_id = note_id,
                          !.success = note /\ res.success]
        /\ UNCHANGED <<restVars, schedulerVars, listing, limiterVars, commandLimiterVars,
                       dispatchVars>>

\* bot_handlers.delete_note_command: /delete <note_id> by user_id; the call
\* is db.delete_note(user_id, note_id)
telegram_delete_note_command(user_id, note_id) ==
    LET res == NotesDatabase_delete_note(db_notes, db_cache, user_id, note_id)
    IN  /\ db_notes' = res.table
        /\ db_cache' = res.cache
        /\ db_last' = [NoDbCall EXCEPT !.op = "delete_note",
                          !.requester = user_id, !.requested = note_id,
                          !.user_id = note_id, !.note_id = user_id,
                          !.success = res.success]
        /\ UNCHANGED <<restVars, schedulerVars, listing, limiterVars, commandLimiterVars,
                       dispatchVars>>

\* discord_bot.cache_cleanup: Cache.cleanup_expired
cache_cleanup ==
    /\ \E k \in DOMAIN db_cache : Expired(db_cache[k], wallclock)
    /\ db_cache' = [k \in {x \in DOMAIN db_cache :
                              ~Expired(db_cache[x], wallclock)} |-> db_cache[k]]
    /\ UNCHANGED <<db_notes, db_last>>
    /\ UNCHANGED <<restVars, schedulerVars, listing, limiterVars, commandLimiterVars,
                   dispatchVars>>

\* a second passes
DbTick ==
    /\ wallclock < MaxDbClock
    /\ wallclock' = wallclock + 1
    /\ UNCHANGED <<buckets, lock, pc, frame, result, admitted>>
    /\ UNCHANGED <<restVars, schedulerVars, listing, commandLimiterVars, dispatchVars,
                   databaseVars>>

\* the Discord bot's process: one NotesDatabase with its cache
DbNext ==
    \/ \E u \in DbUsers, t \in Texts : NotesDatabase_add_note(u, t)
    \/ \E u \in DbUsers : NotesDatabase_get_notes(u)
    \/ \E u \in DbUsers, k \in Keywords : NotesDatabase_search_notes(u, k)
    \/ \E u \in DbUsers, n \in DbNoteIds : discord_delete_note_command(u, n)
    \/ cache_cleanup
    \/ DbTick

SpecDb == Init /\ [][DbNext]_vars

\* the delete commands of the two front ends on one notes table
DeleteNext ==
    \/ \E u \in DbUsers, t \in Texts : NotesDatabase_add_note(u, t)
    \/ \E u \in DbUsers, n \in DbNoteIds : discord_delete_note_command(u, n)
    \/ \E u \in DbUsers, n \in DbNoteIds : telegram_delete_note_command(u, n)

SpecDelete == Init /\ [][DeleteNext]_vars

\* ============================================================ time parsers
\* ReminderScheduler.parse_reminder_time (Telegram) and
\* EnhancedDiscordReminderScheduler.parse_time_string (Discord) as functions
\* of the input string and of now.  A string is a sequence of one-character
\* strings.  REMINDER_TIMEZONE is UTC (config.py default), so a day has
\* 86400 seconds and replace() and timedelta arithmetic agree with UTC.
SecondsPerMinute == 60
SecondsPerHour == 3600
SecondsPerDay == 86400
DaysPerWeek == 7

DigitValue ==
    [c \in {"0", "1", "2", "3", "4", "5", "6", "7", "8", "9"} |->
        CASE c = "0" -> 0 [] c = "1" -> 1 [] c = "2" -> 2 [] c = "3" -> 3
          [] c = "4" -> 4 [] c = "5" -> 5 [] c = "6" -> 6 [] c = "7" -> 7
          [] c = "8" -> 8 [] c = "9" -> 9]
IsDigit(c) == c \in DOMAIN DigitValue
AllDigits(str) == \A i \in 1..Len(str) : IsDigit(str[i])

\* the value of a non-empty digit string
RECURSIVE DigitsValue(_)
DigitsValue(str) ==
    IF str = <<>> THEN 0
    ELSE 10 * DigitsValue(SubSeq(str, 1, Len(str) - 1)) + DigitValue[str[Len(str)]]

\* str.lower() on the letters the inputs use
LowerChar(c) ==
    CASE c = "A" -> "a" [] c = "M" -> "m" [] c = "P" -> "p" [] OTHER -> c
lower(str) == [i \in 1..Len(str) |-> LowerChar(str[i])]

\* str.strip()
RECURSIVE lstrip(_)
lstrip(str) ==
    IF str # <<>> /\ str[1] = " " THEN lstrip(Tail(str)) ELSE str
RECURSIVE rstrip(_)
rstrip(str) ==
    IF str # <<>> /\ str[Len(str)] = " "
    THEN rstrip(SubSeq(str, 1, Len(str) - 1)) ELSE str
strip(str) == rstrip(lstrip(str))

\* str.startswith(prefix)
startswith(str, prefix) ==
    Len(str) >= Len(prefix) /\ SubSeq(str, 1, Len(prefix)) = prefix

\* "sub in str"
contains(str, sub) ==
    \E i \in 0..(Len(str) - Len(sub)) : SubSeq(str, i + 1, i + Len(sub)) = sub

\* str[n:]
DropFirst(str, n) == SubSeq(str, n + 1, Len(str))

\* str.replace(sub, ''), sub not empty
RECURSIVE remove(_, _)
remove(str, sub) ==
    IF str = <<>> THEN <<>>
    ELSE IF startswith(str, sub) THEN remove(DropFirst(str, Len(sub)), sub)
    ELSE <<str[1]>> \o remove(Tail(str), sub)

\* str.split(sep) for a one-character separator: the pieces, empty ones
\* included
RECURSIVE split_on(_, _)
split_on(str, sep) ==
    IF \A i \in 1..Len(str) : str[i] # sep THEN <<str>>
    ELSE LET i == CHOOSE k \in 1..Len(str) :
                      str[k] = sep /\ \A j \in 1..(k - 1) : str[j] # sep
         IN  <<SubSeq(str, 1, i - 1)>> \o split_on(DropFirst(str, i), sep)

\* str.split(): the words between runs of spaces
split(str) == SelectSeq(split_on(str, " "), LAMBDA piece : piece # <<>>)

\* int(str): surrounding spaces are ignored, an optional '-' and then
\* digits only; anything else raises ValueError (ok = FALSE)
int(str) ==
    LET t == strip(str)
        negative == t # <<>> /\ t[1] = "-"
        digits == IF negative THEN Tail(t) ELSE t
    IN  IF digits # <<>> /\ AllDigits(digits)
        THEN [ok |-> TRUE,
              value |-> IF negative THEN 0 - DigitsValue(digits)
                        ELSE DigitsValue(digits)]
        ELSE [ok |-> FALSE, value |-> 0]

\* the literals of the source
IN_ == <<"i", "n", " ">>
AM == <<"a", "m">>
PM == <<"p", "m">>
MINUTE == <<"m", "i", "n", "u", "t", "e">>
HOUR == <<"h", "o", "u", "r">>
DAY == <<"d", "a", "y">>
WEEK == <<"w", "e", "e", "k">>
TOMORROW == <<"t", "o", "m", "o", "r", "r", "o", "w">>
NEXT_WEEK == <<"n", "e", "x", "t", " ", "w", "e", "e", "k">>
NEXT_MONTH == <<"n", "e", "x", "t", " ", "m", "o", "n", "t", "h">>
Plural(unit) == unit \o <<"s">>

\* results
At(seconds) == [kind |-> "instant", seconds |-> seconds, date |-> <<0, 0, 0>>,
                aware |-> TRUE]
OnDate(date, seconds, aware) ==
    [kind |-> "date", seconds |-> seconds, date |-> date, aware |-> aware]

\* every unit taken for a minute
UnitSecondsAllMinutes(unit) == SecondsPerMinute

\* the seconds one unit has
UnitSeconds(unit) ==
    CASE unit = MINUTE -> SecondsPerMinute
      [] unit = HOUR -> SecondsPerHour
      [] unit = DAY -> SecondsPerDay
      [] unit = WEEK -> DaysPerWeek * SecondsPerDay

\* datetime.replace(hour=, minute=, second=0, microsecond=0) of now: the
\* instant, or ValueError (ok = FALSE) when hour or minute is out of range
replace_time(hour, minute) ==
    IF hour \in 0..23 /\ minute \in 0..59
    THEN [ok |-> TRUE,
          value |-> hour * SecondsPerHour + minute * SecondsPerMinute]
    ELSE [ok |-> FALSE, value |-> 0]

\* calendar validation of datetime.strptime
IsLeap(year) == year % 4 = 0 /\ (year % 100 # 0 \/ year % 400 = 0)
DaysInMonth(year, month) ==
    CASE month \in {1, 3, 5, 7, 8, 10, 12} -> 31
      [] month \in {4, 6, 9, 11} -> 30
      [] month = 2 -> IF IsLeap(year) THEN 29 ELSE 28
      [] OTHER -> 0
ValidDate(year, month, day) ==
    year >= 1 /\ month \in 1..12 /\ day \in 1..DaysInMonth(year, month)

\* datetime.strptime(str, fmt) for the three date formats: fmt names the
\* separator and the positions of year, month and day.  %Y takes exactly
\* four digits, %m and %d one or two.
strptime(str, sep, year_at, month_at, day_at) ==
    LET parts == split_on(str, sep)
        wellformed ==
            /\ Len(parts) = 3
            /\ \A i \in 1..3 : parts[i] # <<>> /\ AllDigits(parts[i])
            /\ Len(parts[year_at]) = 4
            /\ Len(parts[month_at]) \in 1..2
            /\ Len(parts[day_at]) \in 1..2
        date == <<DigitsValue(parts[year_at]), DigitsValue(parts[month_at]),
                  DigitsValue(parts[day_at])>>
    IN  IF wellformed /\ ValidDate(date[1], date[2], date[3])
        THEN [ok |-> TRUE, date |-> date]
        ELSE [ok |-> FALSE, date |-> <<0, 0, 0>>]

\* what a parser body hands back: a value, or an exception on its way out
Value(v) == [raised |-> FALSE, value |-> v]
Raise == [raised |-> TRUE, value |-> ParseNone]

\* "except Exception: ... return None" around a body
catch(outcome) == IF outcome.raised THEN Value(ParseNone) ELSE outcome

\* ------------------------------------------------------------- Telegram
\* the branch "in N unit" of parse_reminder_time
telegram_relative(rest, now_s) ==
    LET parts == split(rest)
    IN  IF Len(parts) < 2 THEN Value(ParseNone)
        ELSE LET amount == int(parts[1])
                 unit == parts[2]
             IN  IF ~amount.ok THEN Raise
                 ELSE IF \E u \in {MINUTE, HOUR, DAY, WEEK} :
                            unit \in {u, Plural(u)}
                 THEN LET u == CHOOSE u \in {MINUTE, HOUR, DAY, WEEK} :
                                   unit \in {u, Plural(u)}
                      IN  Value(At(now_s + amount.value * UnitSeconds(u)))
                 ELSE Value(ParseNone)

\* "if reminder_time <= now: reminder_time += timedelta(days=1)"
roll_forward(reminder_time, now_s) ==
    IF reminder_time <= now_s THEN reminder_time + SecondsPerDay
    ELSE reminder_time

\* "hour, minute = map(int, text.split(':'))" and the rest of a clock branch
telegram_clock_fields(text, pm, am, now_s) ==
    LET pieces == split_on(text, ":")
    IN  IF Len(pieces) # 2 THEN Raise
        ELSE LET h == int(pieces[1])
                 m == int(pieces[2])
             IN  IF ~h.ok \/ ~m.ok THEN Raise
                 ELSE LET hour == IF pm /\ h.value # 12 THEN h.value + 12
                                  ELSE IF am /\ h.value = 12 THEN 0
                                  ELSE h.value
                          at == replace_time(hour, m.value)
                      IN  IF ~at.ok THEN Raise
                          ELSE Value(At(roll_forward(at.value, now_s)))

\* the branch "':' in time_str" of parse_reminder_time
telegram_clock(t, now_s) ==
    IF contains(t, AM) \/ contains(t, PM)
    THEN telegram_clock_fields(strip(remove(remove(t, AM), PM)),
                               contains(t, PM), contains(t, AM), now_s)
    ELSE telegram_clock_fields(t, FALSE, FALSE, now_s)

\* the branch "'/' in time_str or '-' in time_str": the first of the three
\* formats that parses wins; the result is localized, with now's time
telegram_date(t, now_s) ==
    LET date_part == split(t)[1]
        ymd == strptime(date_part, "-", 1, 2, 3)
        mdy == strptime(date_part, "/", 3, 1, 2)
        dmy == strptime(date_part, "/", 3, 2, 1)
    IN  IF ymd.ok THEN Value(OnDate(ymd.date, now_s, TRUE))
        ELSE IF mdy.ok THEN Value(OnDate(mdy.date, now_s, TRUE))
        ELSE IF dmy.ok THEN Value(OnDate(dmy.date, now_s, TRUE))
        ELSE Value(ParseNone)

\* the body of the try block of parse_reminder_time
telegram_body(t, now_s) ==
    IF startswith(t, IN_) THEN telegram_relative(DropFirst(t, 3), now_s)
    ELSE IF contains(t, <<":">>) THEN telegram_clock(t, now_s)
    ELSE IF contains(t, <<"/">>) \/ contains(t, <<"-">>)
    THEN telegram_date(t, now_s)
    ELSE Value(ParseNone)

\* ReminderScheduler.parse_reminder_time(time_str)
parse_reminder_time(str, now_s) ==
    catch(telegram_body(strip(lower(str)), now_s))

\* -------------------------------------------------------------- Discord
\* the length of the longest prefix of digits
RECURSIVE DigitPrefix(_)
DigitPrefix(str) ==
    IF str # <<>> /\ IsDigit(str[1]) THEN 1 + DigitPrefix(Tail(str)) ELSE 0

\* _parse_relative_time: re.match(r'(\d+)\s*(minute|hour|day|week)s?')
parse_relative_time(time_str, base_time) ==
    LET n == DigitPrefix(time_str)
        rest == lstrip(DropFirst(time_str, n))
    IN  IF n = 0 THEN Value(ParseNone)
        ELSE IF \E u \in {MINUTE, HOUR, DAY, WEEK} : startswith(rest, u)
        THEN LET u == CHOOSE u \in {MINUTE, HOUR, DAY, WEEK} : startswith(rest, u)
                 amount == DigitsValue(SubSeq(time_str, 1, n))
             IN  Value(At(base_time + amount * UnitSeconds(u)))
        ELSE Value(ParseNone)

\* re.match(r'^\d{1,2}:\d{2}$', time_str)
Matches24Hour(time_str) ==
    LET pieces == split_on(time_str, ":")
    IN  /\ Len(pieces) = 2
        /\ Len(pieces[1]) \in 1..2 /\ AllDigits(pieces[1])
        /\ Len(pieces[2]) = 2 /\ AllDigits(pieces[2])

\* re.match(r'(\d{1,2}):(\d{2})\s*(am|pm)', time_str): the groups, if any
Match12Hour(time_str) ==
    LET n == DigitPrefix(time_str)
        after == DropFirst(time_str, n)
        minute == SubSeq(after, 2, 3)
        tail == lstrip(DropFirst(after, 3))
    IN  IF /\ n \in 1..2
           /\ after # <<>> /\ after[1] = ":"
           /\ Len(after) >= 3 /\ AllDigits(minute)
           /\ (startswith(tail, AM) \/ startswith(tail, PM))
        THEN [ok |-> TRUE, hour |-> DigitsValue(SubSeq(time_str, 1, n)),
              minute |-> DigitsValue(minute),
              period |-> SubSeq(tail, 1, 2)]
        ELSE [ok |-> FALSE, hour |-> 0, minute |-> 0, period |-> <<>>]

\* _parse_time_format, from the 12-hour pattern on
parse_12_hour(time_str) ==
    LET m == Match12Hour(time_str)
        hour == IF m.period = PM /\ m.hour # 12 THEN m.hour + 12
                ELSE IF m.period = AM /\ m.hour = 12 THEN 0
                ELSE m.hour
    IN  IF m.ok /\ hour \in 0..23 /\ m.minute \in 0..59
        THEN Value(At(replace_time(hour, m.minute).value))
        ELSE Value(ParseNone)

\* _parse_time_format(time_str, base_time)
parse_time_format(time_str, base_time) ==
    LET pieces == split_on(time_str, ":")
        hour == DigitsValue(pieces[1])
        minute == DigitsValue(pieces[2])
    IN  IF Matches24Hour(time_str) /\ hour \in 0..23 /\ minute \in 0..59
        THEN Value(At(replace_time(hour, minute).value))
        ELSE parse_12_hour(time_str)

\* base_time.hour and base_time.minute, second=0
WholeMinute(seconds) == seconds - (seconds % SecondsPerMinute)

\* re.match(r'^\d{4}-\d{1,2}-\d{1,2}$') and r'^\d{1,2}/\d{1,2}/\d{4}$'
MatchesDate(date_str, sep, year_at) ==
    LET parts == split_on(date_str, sep)
    IN  /\ Len(parts) = 3
        /\ \A i \in 1..3 :
              /\ AllDigits(parts[i])
              /\ Len(parts[i]) \in (IF i = year_at THEN {4} ELSE 1..2)

\* _parse_date_format(date_str, base_time): a naive datetime; a ValueError of
\* strptime is caught inside
parse_date_format(date_str, base_time) ==
    LET ymd == strptime(date_str, "-", 1, 2, 3)
        mdy == strptime(date_str, "/", 3, 1, 2)
    IN  IF MatchesDate(date_str, "-", 1)
        THEN IF ymd.ok THEN Value(OnDate(ymd.date, WholeMinute(base_time), FALSE))
             ELSE Value(ParseNone)
        ELSE IF MatchesDate(date_str, "/", 3)
        THEN IF mdy.ok THEN Value(OnDate(mdy.date, WholeMinute(base_time), FALSE))
             ELSE Value(ParseNone)
        ELSE Value(ParseNone)

\* _parse_natural_language(time_str, base_time)
parse_natural_language(time_str, base_time) ==
    IF time_str = TOMORROW THEN Value(At(base_time + SecondsPerDay))
    ELSE IF time_str = NEXT_WEEK
    THEN Value(At(base_time + DaysPerWeek * SecondsPerDay))
    ELSE IF time_str = NEXT_MONTH THEN Value(At(base_time + 30 * SecondsPerDay))
    ELSE Value(ParseNone)

\* the body of the try block of parse_time_string
discord_body(t, now_s) ==
    IF startswith(t, IN_) THEN parse_relative_time(DropFirst(t, 3), now_s)
    ELSE IF contains(t, <<":">>) THEN parse_time_format(t, now_s)
    ELSE IF contains(t, <<"-">>) \/ contains(t, <<"/">>)
    THEN parse_date_format(t, now_s)
    ELSE parse_natural_language(t, now_s)

\* EnhancedDiscordReminderScheduler.parse_time_string(time_string)
parse_time_string(str, now_s) ==
    catch(discord_body(lower(strip(str)), now_s))

\* ------------------------------------------------- inputs of the parsers
\* now: 00:00:00, 14:30:00, 14:30:20 and 23:59:59 of today
ParserNows == {0, 52200, 52220, 86399}

ClockHours == {<<"0">>, <<"9">>, <<"1", "2">>, <<"1", "4">>, <<"2", "3">>,
               <<"2", "5">>}
ClockMinutes == {<<"0", "0">>, <<"3", "0">>, <<"7", "0">>, <<"5">>}
ClockSuffixes == {<<>>, AM, PM, <<" ">> \o PM, <<"P", "M">>,
                  PM \o <<" ", "x">>}
ClockInputs ==
    {h \o <<":">> \o m \o x :
        h \in ClockHours, m \in ClockMinutes, x \in ClockSuffixes}

RelativeAmounts == {<<"0">>, <<"1">>, <<"3", "0">>, <<"x">>, <<>>}
RelativeGaps == {<<" ">>, <<>>}
RelativeUnits ==
    {MINUTE, HOUR, DAY, WEEK, Plural(MINUTE), Plural(HOUR), Plural(DAY),
     Plural(WEEK), <<"i", "n", "v", "a", "l", "i", "d">>,
     <<"d", "a", "y", "z">>}
RelativeInputs ==
    {IN_ \o n \o g \o u :
        n \in RelativeAmounts, g \in RelativeGaps, u \in RelativeUnits}

DateInputs ==
    {<<"2", "0", "2", "4", "-", "0", "1", "-", "1", "5">>,
     <<"2", "0", "2", "4", "-", "0", "2", "-", "2", "9">>,
     <<"2", "0", "2", "3", "-", "0", "2", "-", "2", "9">>,
     <<"2", "0", "2", "4", "-", "0", "2", "-", "3", "0">>,
     <<"2", "0", "2", "4", "-", "1", "-", "5">>,
     <<"0", "1", "/", "1", "5", "/", "2", "0", "2", "4">>,
     <<"1", "5", "/", "0", "1", "/", "2", "0", "2", "4">>,
     <<"1", "3", "/", "0", "1", "/", "2", "0", "2", "4">>,
     <<"0", "1", "/", "0", "2", "/", "2", "0", "2", "4">>,
     <<"1", "3", "/", "1", "3", "/", "2", "0", "2", "4">>,
     <<"2", "0", "2", "4", "-", "1", "3", "-", "0", "1">>,
     <<"1", "-", "2">>,
     <<"2", "0", "2", "4", "-", "0", "1", "-", "1", "5", " ", "x">>,
     <<"0", "0", "0", "0", "-", "0", "1", "-", "0", "1">>}

OtherInputs ==
    {<<>>,
     <<"a", "b", "c">>,
     <<"i", "n", "v", "a", "l", "i", "d", " ", "t", "i", "m", "e">>,
     <<":">>,
     <<"1", "4", ":", "3", "0", ":", "4", "5">>,
     <<" ", "1", "4", ":", "3", "0", " ">>,
     <<"9", " ", ":", " ", "3", "0">>,
     <<"-", "1", ":", "3", "0">>,
     <<"i", "n">>,
     <<"i", "n", " ", "5">>,
     <<"i", "n", " ", "-", "5", " ", "m", "i", "n", "u", "t", "e", "s">>,
     <<"i", "n", " ", " ", "5", " ", "m", "i", "n", "u", "t", "e", "s">>,
     <<"i", "n", " ", "5", " ", "w", "e", "e", "k", "e", "n", "d", "s">>,
     <<"i", "n", " ", "2", " ", "d", "a", "y", "s", "a", "g", "o">>,
     <<"i", "n", " ", "5", " ", "m", "i", "n", "u", "t", "e", "s", " ", "x">>,
     <<"t", "o", "m", "o", "r", "r", "o", "w">>,
     <<"n", "e", "x", "t", " ", "w", "e", "e", "k">>,
     <<"n", "e", "x", "t", " ", "m", "o", "n", "t", "h">>}

ParserInputs == ClockInputs \cup RelativeInputs \cup DateInputs \cup OtherInputs

\* the scheduler as constructed, and every other component at rest
AllIdle ==
    /\ reminder_callbacks = <<>>
    /\ user_reminder_counts = [u \in Users |-> 0]
    /\ discord_bot = FALSE
    /\ running = FALSE
    /\ jobstore = <<>>
    /\ tasks = <<>>
    /\ channels = Channels
    /\ notes = [n \in NoteIds |-> NoRow]
    /\ sent = <<>>
    /\ now = 0
    /\ last = NoCall
    /\ listing = NoListing
    /\ LimiterIdle
    /\ CommandLimiterIdle
    /\ DispatchIdle
    /\ DatabaseIdle
    /\ FireIdle
    /\ InfoIdle
    /\ SecurityIdle
    /\ ActivityIdle

ParseInit ==
    /\ AllIdle
    /\ time_string \in ParserInputs
    /\ parse_now \in ParserNows
    /\ parsed = NoParse

\* the Telegram bot parses the expression
TelegramParse ==
    /\ LET outcome == parse_reminder_time(time_string, parse_now)
       IN  parsed' = [parser |-> "telegram", raised |-> outcome.raised,
                      value |-> outcome.value]
    /\ UNCHANGED <<time_string, parse_now>>
    /\ UNCHANGED <<schedulerVars, listing, limiterVars, commandLimiterVars,
                   dispatchVars, databaseVars, fireVars, infoVars, securityVars, activityVars>>

\* the Discord bot parses the expression
DiscordParse ==
    /\ LET outcome == parse_time_string(time_string, parse_now)
       IN  parsed' = [parser |-> "discord", raised |-> outcome.raised,
                      value |-> outcome.value]
    /\ UNCHANGED <<time_string, parse_now>>
    /\ UNCHANGED <<schedulerVars, listing, limiterVars, commandLimiterVars,
                   dispatchVars, databaseVars, fireVars, infoVars, securityVars, activityVars>>

ParseNext == TelegramParse \/ DiscordParse

SpecParse == ParseInit /\ [][ParseNext]_vars

\* ===================================================== SecurityMiddleware
\* The three operations of SecurityMiddleware called one at a time on the
\* event loop: check_permissions, record_command_usage and, to give the
\* rate limiters a state, is_user_allowed of the CommandRateLimiter.
\* the callers of record_command_usage in these runs
UsageUsers == {1}
UsageCommands == {"add"}
UsageGuilds == {NoGuild}

\* await security_middleware.check_permissions(ctx), for a context with
\* author user_id and guild guild_id (NoGuild: a direct message)
SecurityMiddleware_check_permissions(user_id, guild_id) ==
    /\ LET perm == check_permissions(user_id, guild_id)
       IN  sec_last' = [op |-> "check_permissions", user_id |-> user_id,
                        guild_id |-> guild_id, command |-> "none",
                        success |-> FALSE,
                        has_permission |-> perm.has_permission,
                        error_msg |-> perm.error_msg]
    /\ UNCHANGED <<allowed_guilds, blocked_users, suspicious_activity>>
    /\ UNCHANGED <<parserVars, fireVars, infoVars, activityVars, schedulerVars, listing,
                   limiterVars, commandLimiterVars, dispatchVars, databaseVars>>

\* security_middleware.record_command_usage(ctx, command, success);
\* datetime.now() is read as the wall clock
record_command_usage(user_id, command, guild_id, success) ==
    /\ LET after == command_usage(SecurityState, user_id, command, guild_id,
                                  success, wallclock)
       IN  /\ allowed_guilds' = after.allowed_guilds
           /\ blocked_users' = after.blocked_users
           /\ suspicious_activity' = after.suspicious_activity
    /\ sec_last' = [op |-> "record_command_usage", user_id |-> user_id,
                    guild_id |-> guild_id, command |-> command,
                    success |-> success, has_permission |-> FALSE,
                    error_msg |-> ""]
    /\ UNCHANGED <<parserVars, fireVars, infoVars, activityVars, schedulerVars, listing,
                   limiterVars, commandLimiterVars, dispatchVars, databaseVars>>

SecNext ==
    \/ \E u \in LimitedUsers, g \in Guilds :
          SecurityMiddleware_check_permissions(u, g)
    \/ \E u \in UsageUsers, c \in UsageCommands, g \in UsageGuilds,
          ok \in BOOLEAN : record_command_usage(u, c, g, ok)
    \/ \E u \in UsageUsers : is_user_allowed(u)
    \/ CmdTick

SpecSec == Init /\ [][SecNext]_vars

\* ============================================ SecurityManager, the lists
\* The operations on the two sets of SecurityManager, each a single step
\* (add, discard and the membership tests are single operations on a set),
\* and check_permissions, called one at a time.
GuildIds == 1..MaxGuild

\* SecurityManager.add_allowed_guild(guild_id)
add_allowed_guild(guild_id) ==
    /\ allowed_guilds' = allowed_guilds \cup {guild_id}
    /\ sec_last' = [NoSecurityCall EXCEPT !.op = "add_allowed_guild",
                                          !.guild_id = guild_id]
    /\ UNCHANGED <<blocked_users, suspicious_activity>>
    /\ UNCHANGED <<parserVars, fireVars, infoVars, activityVars, schedulerVars,
                   listing, limiterVars, commandLimiterVars, dispatchVars,
                   databaseVars>>

\* SecurityManager.remove_allowed_guild(guild_id): set.discard
remove_allowed_guild(guild_id) ==
    /\ allowed_guilds' = allowed_guilds \ {guild_id}
    /\ sec_last' = [NoSecurityCall EXCEPT !.op = "remove_allowed_guild",
                                          !.guild_id = guild_id]
    /\ UNCHANGED <<blocked_users, suspicious_activity>>
    /\ UNCHANGED <<parserVars, fireVars, infoVars, activityVars, schedulerVars,
                   listing, limiterVars, commandLimiterVars, dispatchVars,
                   databaseVars>>

\* SecurityManager.block_user(user_id)
block_user(user_id) ==
    /\ blocked_users' = blocked_users \cup {user_id}
    /\ sec_last' = [NoSecurityCall EXCEPT !.op = "block_user",
                                          !.user_id = user_id]
    /\ UNCHANGED <<allowed_guilds, suspicious_activity>>
    /\ UNCHANGED <<parserVars, fireVars, infoVars, activityVars, schedulerVars,
                   listing, limiterVars, commandLimiterVars, dispatchVars,
                   databaseVars>>

\* SecurityManager.unblock_user(user_id): set.discard
unblock_user(user_id) ==
    /\ blocked_users' = blocked_users \ {user_id}
    /\ sec_last' = [NoSecurityCall EXCEPT !.op = "unblock_user",
                                          !.user_id = user_id]
    /\ UNCHANGED <<allowed_guilds, suspicious_activity>>
    /\ UNCHANGED <<parserVars, fireVars, infoVars, activityVars, schedulerVars,
                   listing, limiterVars, commandLimiterVars, dispatchVars,
                   databaseVars>>

\* a call of SecurityManager.is_guild_allowed(guild_id); the returned
\* value is kept in has_permission
SecurityManager_is_guild_allowed(guild_id) ==
    /\ sec_last' = [NoSecurityCall EXCEPT !.op = "is_guild_allowed",
                                          !.guild_id = guild_id,
                                          !.has_permission =
                                              is_guild_allowed(guild_id)]
    /\ UNCHANGED <<allowed_guilds, blocked_users, suspicious_activity>>
    /\ UNCHANGED <<parserVars, fireVars, infoVars, activityVars, schedulerVars,
                   listing, limiterVars, commandLimiterVars, dispatchVars,
                   databaseVars>>

GuildNext ==
    \/ \E g \in GuildIds : add_allowed_guild(g)
    \/ \E g \in GuildIds : remove_allowed_guild(g)
    \/ \E u \in LimitedUsers : block_user(u)
    \/ \E u \in LimitedUsers : unblock_user(u)
    \/ \E g \in GuildIds : SecurityManager_is_guild_allowed(g)
    \/ \E u \in LimitedUsers, g \in Guilds :
          SecurityMiddleware_check_permissions(u, g)

SpecGuild == Init /\ [][GuildNext]_vars

\* ============================== record_suspicious_activity, by threads
\* record_suspicious_activity(user_id, activity_type, details) called by
\* several threads.  The body runs under self.lock; inside it the append,
\* the slice [-10:] and the assignment of the slice are three steps.
MaxRecorded == 12
ActivityUsers == {1}

\* the command named in the details of the records thread t writes
CommandOfThread(t) == IF t = 1 THEN "add" ELSE "list"

\* a lock every thread can take at any time
SecLockFreeAlways == TRUE

\* threading.Lock: "with self.lock" waits until no thread holds it
SecLockFree == sec_lock = 0

\* thread t calls record_suspicious_activity(user_id, 'command_failure',
\* details) and comes to "with self.lock"
RSACall(t, user_id) ==
    /\ sec_pc[t] = "idle"
    /\ Len(recorded[user_id]) < MaxRecorded
    /\ sec_pc' = [sec_pc EXCEPT ![t] = "lock"]
    /\ sec_frame' = [sec_frame EXCEPT ![t] =
                        [NoActivityFrame EXCEPT !.user_id = user_id,
                                                !.command = CommandOfThread(t)]]
    /\ UNCHANGED <<sec_lock, recorded, securityVars>>
    /\ UNCHANGED <<parserVars, fireVars, infoVars, schedulerVars, listing,
                   limiterVars, commandLimiterVars, dispatchVars, databaseVars>>

\* lines 189-195: the lock is taken, the activity dict is built with
\* datetime.now() and appended to the user's list
RSAAppend(t) ==
    /\ sec_pc[t] = "lock"
    /\ SecLockFree
    /\ sec_lock' = t
    /\ LET u == sec_frame[t].user_id
           activity == Activity(wallclock, sec_frame[t].command, NoGuild)
       IN  /\ suspicious_activity' =
                  [suspicious_activity EXCEPT ![u] = Append(@, activity)]
           /\ recorded' = [recorded EXCEPT ![u] = Append(@, activity)]
    /\ sec_pc' = [sec_pc EXCEPT ![t] = "check"]
    /\ UNCHANGED <<sec_frame, allowed_guilds, blocked_users, sec_last>>
    /\ UNCHANGED <<parserVars, fireVars, infoVars, schedulerVars, listing,
                   limiterVars, commandLimiterVars, dispatchVars, databaseVars>>

\* line 198 and the right-hand side of line 199: if the list is longer
\* than 10, its last 10 entries are copied; otherwise the lock is released
RSASlice(t) ==
    /\ sec_pc[t] = "check"
    /\ LET lst == suspicious_activity[sec_frame[t].user_id]
       IN  IF Len(lst) > ActivitiesKept
           THEN /\ sec_frame' = [sec_frame EXCEPT
                                    ![t].kept = LastN(lst, ActivitiesKept)]
                /\ sec_pc' = [sec_pc EXCEPT ![t] = "assign"]
                /\ UNCHANGED sec_lock
           ELSE /\ sec_frame' = [sec_frame EXCEPT ![t] = NoActivityFrame]
                /\ sec_pc' = [sec_pc EXCEPT ![t] = "idle"]
                /\ sec_lock' = 0
    /\ UNCHANGED <<recorded, securityVars>>
    /\ UNCHANGED <<parserVars, fireVars, infoVars, schedulerVars, listing,
                   limiterVars, commandLimiterVars, dispatchVars, databaseVars>>

\* the assignment of line 199, and the lock is released
RSAAssign(t) ==
    /\ sec_pc[t] = "assign"
    /\ suspicious_activity' =
           [suspicious_activity EXCEPT ![sec_frame[t].user_id] = sec_frame[t].kept]
    /\ sec_frame' = [sec_frame EXCEPT ![t] = NoActivityFrame]
    /\ sec_pc' = [sec_pc EXCEPT ![t] = "idle"]
    /\ sec_lock' = 0
    /\ UNCHANGED <<recorded, allowed_guilds, blocked_users, sec_last>>
    /\ UNCHANGED <<parserVars, fireVars, infoVars, schedulerVars, listing,
                   limiterVars, commandLimiterVars, dispatchVars, databaseVars>>

ActivityNext ==
    \/ \E t \in Threads, u \in ActivityUsers : RSACall(t, u)
    \/ \E t \in Threads : RSAAppend(t)
    \/ \E t \in Threads : RSASlice(t)
    \/ \E t \in Threads : RSAAssign(t)

SpecActivity == Init /\ [][ActivityNext]_vars

\* ============================================================ fire handlers
\* The send calls of the two fire handlers.  A firing is one run of a fire
\* handler by the timer engine; every call the handler makes on the
\* messaging sink during the firing is recorded in send_calls with the
\* number of the firing, whether the call succeeded or raised.
MaxFiring == 2
TelegramJobIds == {DerivedJobId(1, n, 1) : n \in NoteIds}

SendCall(firing, handler, job_id, call, ok) ==
    [firing |-> firing, handler |-> handler, job |-> job_id,
     call |-> call, ok |-> ok]

\* discord_reminder_scheduler.py lines 197-203, reached on the path "sent":
\*     try:
\*         user = await self.discord_bot.fetch_user(user_id)
\*         await channel.send(f"{user.mention}", embed=embed)
\*     except:
\*         await channel.send(embed=embed)
\* fetch_user_ok, send_ok, fallback_ok: whether the three awaits return or
\* raise.
discord_send_calls(firing, job_id, path, fetch_user_ok, send_ok, fallback_ok) ==
    IF path # "sent" THEN <<>>
    ELSE IF fetch_user_ok
         THEN IF send_ok
              THEN <<SendCall(firing, "discord", job_id, "mention", TRUE)>>
              ELSE <<SendCall(firing, "discord", job_id, "mention", FALSE),
                     SendCall(firing, "discord", job_id, "embed", fallback_ok)>>
         ELSE <<SendCall(firing, "discord", job_id, "embed", fallback_ok)>>

\* The timer engine runs the task of job_id (RunJob) and the sink calls of
\* _send_reminder are recorded.
DiscordFire(job_id, fetch_user_ok, send_ok, fallback_ok) ==
    /\ firings < MaxFiring
    /\ job_id \in DOMAIN tasks
    /\ tasks' = Drop(tasks, job_id)
    /\ firings' = firings + 1
    /\ IF Missed(tasks[job_id])
       THEN /\ last' = Call("fire", job_id, NoJobId, "missed")
            /\ UNCHANGED <<reminder_callbacks, user_reminder_counts, sent,
                           send_calls>>
       ELSE /\ send_reminder(job_id)
            /\ send_calls' = send_calls \o
                   discord_send_calls(firings + 1, job_id, SendPath(job_id),
                                      fetch_user_ok, send_ok, fallback_ok)
    /\ UNCHANGED <<discord_bot, running, jobstore, channels, notes, now>>
    /\ UNCHANGED <<listing, limiterVars, commandLimiterVars, dispatchVars,
                   databaseVars, parserVars, infoVars, securityVars, activityVars, telegram_bot, telegram_jobs>>

\* reminder_scheduler.py, set_bot: self.bot = bot
set_bot ==
    /\ ~telegram_bot
    /\ telegram_bot' = TRUE
    /\ UNCHANGED <<schedulerVars, listing, limiterVars, commandLimiterVars,
                   dispatchVars, databaseVars, parserVars, infoVars, securityVars, activityVars, send_calls, firings,
                   telegram_jobs>>

\* reminder_scheduler.py, add_reminder with no job_id given:
\* scheduler.add_job(func=self._send_reminder, trigger=DateTrigger(...),
\*                   id=job_id, replace_existing=True)
add_reminder(user_id, note_id, reminder_time) ==
    /\ telegram_jobs' = telegram_jobs \cup
                           {DerivedJobId(user_id, note_id, reminder_time)}
    /\ UNCHANGED <<schedulerVars, listing, limiterVars, commandLimiterVars,
                   dispatchVars, databaseVars, parserVars, infoVars, securityVars, activityVars, send_calls, firings,
                   telegram_bot>>

\* reminder_scheduler.py lines 112-143, _send_reminder: without a bot it
\* returns; otherwise one bot.send_message inside try/except Exception,
\* and the except branch only logs.
telegram_send_calls(firing, job_id, bot, send_ok) ==
    IF ~bot THEN <<>>
    ELSE <<SendCall(firing, "telegram", job_id, "message", send_ok)>>

\* The date trigger of job_id is due: the job leaves the timer engine and
\* _send_reminder runs once.
TelegramFire(job_id, send_ok) ==
    /\ firings < MaxFiring
    /\ job_id \in telegram_jobs
    /\ telegram_jobs' = telegram_jobs \ {job_id}
    /\ firings' = firings + 1
    /\ send_calls' = send_calls \o
           telegram_send_calls(firings + 1, job_id, telegram_bot, send_ok)
    /\ UNCHANGED telegram_bot
    /\ UNCHANGED <<schedulerVars, listing, limiterVars, commandLimiterVars,
                   dispatchVars, databaseVars, parserVars, infoVars, securityVars, activityVars>>

\* the notes the fire handlers' runs are about
FiredNotes == {1}

FireNext ==
    \/ \E u \in Users, n \in FiredNotes, t \in FireTimes, c \in Channels :
          schedule_reminder(u, n, t, c, NoJobId)
    \/ \E j \in JobIds : ProcessJobs(j)
    \/ \E j \in JobIds : \E f, o, b \in BOOLEAN : DiscordFire(j, f, o, b)
    \/ on_ready
    \/ \E n \in FiredNotes : add_note(n, TextOf(n))
    \/ \E c \in Channels : ChannelGone(c)
    \/ Tick
    \/ set_bot
    \/ \E j \in TelegramJobIds : add_reminder(j[1], j[2], j[3])
    \/ \E j \in TelegramJobIds : \E o \in BOOLEAN : TelegramFire(j, o)

SpecFire == Init /\ [][FireNext]_vars

\* ================================================================ claims
NumLive(cb, user_id) == Cardinality(LiveJobsOf(cb, user_id))

FiresLive(job_id) ==
    /\ RunJob(job_id)
    /\ ~Missed(tasks[job_id])
    /\ job_id \in DOMAIN reminder_callbacks

\* C2: whenever the fire handler runs for a live job, on every path, the
\* job has left the live-job map and its user's live-job count is one lower
\* when the handler ends.
C2_FireAlwaysCleansUp ==
    [][ \A j \in JobIds :
          FiresLive(j) =>
            LET u == reminder_callbacks[j].user_id
            IN  /\ j \notin DOMAIN reminder_callbacks'
                /\ user_reminder_counts'[u] = user_reminder_counts[u] - 1
      ]_vars

\* C3: when the fire handler runs for a live job while the bot is set and
\* the channel resolves, the sink receives exactly one delivery, for this
\* job, with the job's note_id and the text captured at schedule time, and
\* the job is no longer among the user's reminders.
C3_FireDeliversOnce ==
    [][ \A j \in JobIds :
          ( /\ FiresLive(j)
            /\ discord_bot
            /\ reminder_callbacks[j].channel_id \in channels )
          => /\ Len(sent') = Len(sent) + 1
             /\ sent'[Len(sent')].job = j
             /\ sent'[Len(sent')].note_id = reminder_callbacks[j].note_id
             /\ sent'[Len(sent')].note_text =
                    RenderNoteText(reminder_callbacks[j].note_text)
             /\ j \notin LiveJobsOf(reminder_callbacks',
                                    reminder_callbacks[j].user_id)
      ]_vars

\* C4: cancel_reminder(job_id) returns true exactly when job_id is in the
\* live-job map, and then the timer is gone, the job has left the map and
\* the user's count is one lower; otherwise nothing changes.
C4_CancelTrueIffLive ==
    [][ \A j \in JobIds :
          cancel_reminder(j) =>
            IF j \in DOMAIN reminder_callbacks
            THEN LET u == reminder_callbacks[j].user_id
                 IN  /\ last'.path = "cancelled"
                     /\ j \notin DOMAIN jobstore'
                     /\ j \notin DOMAIN reminder_callbacks'
                     /\ user_reminder_counts'[u] = user_reminder_counts[u] - 1
            ELSE /\ last'.path = "absent"
                 /\ UNCHANGED <<reminder_callbacks, jobstore, user_reminder_counts>>
      ]_vars

\* C5: a cancel_reminder call that follows a cancel_reminder call which
\* returned true for the same job id returns false and changes neither the
\* live-job map, nor the timers, nor any user's count.
C5_CancelIdempotent ==
    [][ \A j \in JobIds :
          ( /\ last.op = "cancel"
            /\ last.path = "cancelled"
            /\ last.job = j
            /\ cancel_reminder(j) )
          => /\ last'.path = "absent"
             /\ UNCHANGED <<reminder_callbacks, jobstore, tasks,
                            user_reminder_counts>>
      ]_vars

\* the last call was a cancel_reminder that repeated a successful
\* cancel_reminder of the same job id, and it found nothing to cancel
C5_Witness ==
    /\ last.op = "cancel"
    /\ last.again
    /\ last.path = "absent"

\* C6: after one of a user's live jobs was cancelled or has fired, the
\* user's next schedule_reminder call for an existing note succeeds and
\* returns its job id (the last step of the quota scenario: MAX calls
\* succeed, the next is rejected, one job goes, one more call succeeds).
C6_QuotaFreedByCancelOrFire ==
    [][ \A u \in Users, n \in NoteIds, t \in FireTimes, c \in Channels :
          ( /\ last.op \in {"cancel", "fire"}
            /\ last.path \in {"cancelled", "nobot", "nochannel", "nameerror", "sent"}
            /\ last.job[1] = u
            /\ get_note_by_id(n).present
            /\ schedule_reminder(u, n, t, c, NoJobId) )
          => /\ last'.path = "scheduled"
             /\ last'.ret = DerivedJobId(u, n, t)
      ]_vars

\* C7: when a user has REMINDER_MAX_PER_USER - 1 live jobs, of two
\* schedule_reminder calls for existing notes that run one right after the
\* other exactly one succeeds: the first returns a job id, and after it the
\* quota check refuses the user's next call.
C7_ExactlyOneAtQuotaMinusOne ==
    [][ \A u \in Users, n \in NoteIds, t \in FireTimes, c \in Channels :
          ( /\ NumLive(reminder_callbacks, u) = REMINDER_MAX_PER_USER - 1
            /\ get_note_by_id(n).present
            /\ schedule_reminder(u, n, t, c, NoJobId) )
          => /\ last'.path = "scheduled"
             /\ ~check_user_reminder_limit(user_reminder_counts', u)
      ]_vars

\* C8: cancel_reminder racing with the firing of the same job.  (a) A fire
\* handler that runs right after a cancel_reminder of its job returned true
\* makes no sink call; (b) a fire handler that finds no metadata changes
\* nothing; (c) a fire handler makes at most one sink call; (d) the count
\* is decremented exactly once for the job: when cancel_reminder is called
\* after the job's fire handler ran, the handler has already removed the
\* job and the cancel changes nothing.
C8_CancelFireRace ==
    [][ \A j \in JobIds :
          /\ ( /\ last.op = "cancel" /\ last.path = "cancelled" /\ last.job = j
               /\ RunJob(j) )
             => sent' = sent
          /\ ( RunJob(j) /\ j \notin DOMAIN reminder_callbacks )
             => UNCHANGED <<reminder_callbacks, user_reminder_counts, sent>>
          /\ RunJob(j) => Len(sent') <= Len(sent) + 1
          /\ ( /\ last.op = "fire" /\ last.job = j
               /\ last.path \in {"nobot", "nochannel", "nameerror", "sent"}
               /\ cancel_reminder(j) )
             => /\ j \notin DOMAIN reminder_callbacks
                /\ last'.path = "absent"
                /\ UNCHANGED <<reminder_callbacks, user_reminder_counts>>
      ]_vars

\* C9: schedule_reminder reports a missing note with a result the caller
\* can tell apart from a capacity rejection: a capacity rejection never
\* returns the value that a rejection for a missing note returns.
C9_RejectionsDistinct ==
    (last.op = "schedule" /\ last.path = "capacity") => last.ret # NotFoundReturn

\* C10: a schedule_reminder call that repeats the call before it (same
\* user, note and fire time, the job still pending) returns the same job
\* id and leaves the live-job map, the timers and the counts as the first
\* call left them.
C10_RescheduleIdempotent ==
    [][ \A u \in Users, n \in NoteIds, t \in FireTimes, c \in Channels :
          ( /\ last.op = "schedule"
            /\ last.path = "scheduled"
            /\ last.job = DerivedJobId(u, n, t)
            /\ DerivedJobId(u, n, t) \in DOMAIN jobstore
            /\ DerivedJobId(u, n, t) \in DOMAIN reminder_callbacks
            /\ reminder_callbacks[DerivedJobId(u, n, t)].channel_id = c
            /\ get_note_by_id(n).present
            /\ schedule_reminder(u, n, t, c, NoJobId) )
          => /\ last'.ret = last.ret
             /\ UNCHANGED <<reminder_callbacks, jobstore, user_reminder_counts>>
      ]_vars

\* C11: the text delivered when a job fires is the truncated note text as
\* it was when schedule_reminder was called: when the note has been
\* deleted from the note store between scheduling and firing, the fire
\* handler (bot set, channel resolved) still makes its one delivery, and
\* the delivery carries the text the note had at schedule time.
C11_DeliversSnapshot ==
    [][ \A j \in JobIds :
          ( /\ FiresLive(j)
            /\ discord_bot
            /\ reminder_callbacks[j].channel_id \in channels
            /\ ~get_note_by_id(reminder_callbacks[j].note_id).present )
          => /\ Len(sent') = Len(sent) + 1
             /\ sent'[Len(sent')].note_text =
                    RenderNoteText(Truncate(TextOf(reminder_callbacks[j].note_id)))
      ]_vars

\* C13: when cancel_user_reminders(user_id) returns, the user has no live
\* job and a live-job count of zero, and the live jobs, timers and counts
\* of every other user are as before.
C13_CancelUserClearsUser ==
    [][ \A u \in Users :
          cancel_user_reminders(u) =>
            /\ LiveJobsOf(reminder_callbacks', u) = {}
            /\ user_reminder_counts'[u] = 0
            /\ \A v \in Users \ {u} :
                  /\ LiveJobsOf(reminder_callbacks', v) = LiveJobsOf(reminder_callbacks, v)
                  /\ user_reminder_counts'[v] = user_reminder_counts[v]
                  /\ \A j \in LiveJobsOf(reminder_callbacks, v) :
                        (j \in DOMAIN jobstore) = (j \in DOMAIN jobstore')
      ]_vars

\* C12: get_user_reminders(user_id) returns exactly the live jobs owned by
\* user_id, each once, ordered by ascending fire instant, also when the
\* fire times carry different UTC offsets or are timezone-naive.
C12_ListingExactAndSorted ==
    listing.user_id # 0 =>
        LET s == listing.reminders
        IN  /\ {s[i].job_id : i \in DOMAIN s}
                  = LiveJobsOf(reminder_callbacks, listing.user_id)
            /\ Len(s) = Cardinality(LiveJobsOf(reminder_callbacks, listing.user_id))
            /\ \A i, k \in DOMAIN s : i < k => s[i].job_id[3] <= s[k].job_id[3]

\* the timestamps of seq that are not older than window_size seconds at
\* time t
NotOlderThanWindow(seq, t) == {i \in DOMAIN seq : seq[i] >= t - window_size}
\* the timestamps of seq that lie less than window_size seconds before t
InsideWindow(seq, t) == {i \in DOMAIN seq : t - seq[i] < window_size}

\* C14: for a RateLimiter with bucket size B and window W and one key: a
\* call is accepted, with retry_after 0, whenever fewer than B requests
\* were recorded for the key in the W seconds before it (so the first B
\* calls are accepted, and a call made more than W seconds after the oldest
\* of B recorded requests is accepted again), and a call is rejected with
\* retry_after > 0 when B recorded requests lie inside the window.
C14_BucketThenRejectThenRecover ==
    [][ \A t \in Threads :
          /\ ( /\ RLCheck(t)
               /\ Cardinality(NotOlderThanWindow(admitted[frame[t].key],
                                                 frame[t].cleanup_time))
                     < bucket_size )
             => pc'[t] = "append"
          /\ RLAppend(t)
             => /\ result'[t].allowed
                /\ result'[t].retry_after = 0
          /\ ( /\ RLCheck(t)
               /\ Cardinality(InsideWindow(admitted[frame[t].key], wallclock))
                     >= bucket_size )
             => /\ ~result'[t].allowed
                /\ result'[t].returned
                /\ result'[t].retry_after > 0
      ]_vars

\* a thread was rejected with retry_after > 0 while another call on a key
\* that had already seen more than bucket_size accepted requests (one of
\* them after the window of the first had passed) is being accepted
C14_Witness ==
    \E t, u \in Threads :
        /\ result[t].returned
        /\ ~result[t].allowed
        /\ result[t].retry_after > 0
        /\ pc[u] = "idle"
        /\ result[u].allowed
        /\ \E k \in Keys : Len(admitted[k]) > bucket_size

\* C15: under every interleaving of is_allowed calls, at most one thread is
\* between the length check and the append of a bucket; no bucket holds
\* more than bucket_size timestamps; no recorded request is lost (a bucket
\* is the tail of the requests recorded for its key and holds every one
\* that is not older than the window); and among the admitted calls of a
\* key, any bucket_size + 1 span more than window_size seconds.
C15_MutualExclusionNoLostRequest ==
    /\ Cardinality({t \in Threads : pc[t] \in {"check", "append"}}) <= 1
    /\ \A k \in Keys :
          /\ Len(buckets[k]) <= bucket_size
          /\ Len(buckets[k]) <= Len(admitted[k])
          /\ buckets[k] = SubSeq(admitted[k],
                                 Len(admitted[k]) - Len(buckets[k]) + 1,
                                 Len(admitted[k]))
          /\ \A i \in NotOlderThanWindow(admitted[k], wallclock) :
                i > Len(admitted[k]) - Len(buckets[k])
          /\ \A i \in DOMAIN admitted[k] :
                i + bucket_size \in DOMAIN admitted[k]
                => admitted[k][i + bucket_size] - admitted[k][i] > window_size

\* two threads are in is_allowed calls on the same key: one is inside the
\* critical section, about to append, and the other waits for the lock
C15_Witness ==
    \E t, u \in Threads :
        /\ pc[t] = "append"
        /\ pc[u] = "acquire"
        /\ frame[t].key = frame[u].key
        /\ lock = t

\* ---------------------------------------------------------------- C18
\* the step is a call is_command_allowed(user_id, command): the call's two
\* clock readings are the clock before and after the step
IsCommandCall(user_id, command) ==
    /\ cmd_last'.op = "command"
    /\ cmd_last'.user_id = user_id
    /\ cmd_last'.command = command
    /\ cmd_last'.cleanup_time = wallclock
    /\ cmd_last'.current_time = wallclock'

\* the step is a call is_user_allowed(user_id)
IsUserCall(user_id) ==
    /\ cmd_last'.op = "user"
    /\ cmd_last'.user_id = user_id
    /\ cmd_last'.cleanup_time = wallclock
    /\ cmd_last'.current_time = wallclock'

\* the cooldown bucket of (user, command) in a map of limiters
CommandBucket(limiters, user_id, command) ==
    IF command \in DOMAIN limiters
    THEN BucketOf(limiters[command], get_user_command_key(user_id, command))
    ELSE <<>>

\* the admitted calls of a pair are more than a cooldown apart
OnePerCooldown(user_id, command) ==
    LET h == cmd_admitted[user_id, command]
    IN  \A i \in 1..Len(h) : \A j \in 1..Len(h) :
            i < j => h[j] - h[i] > CooldownOf(command)

\* C18: for each (user, command), is_command_allowed admits at most one call
\* per cooldown of the command, its answer is decided by the pair's own
\* earlier admissions and the clock alone (yes exactly when the pair was
\* never admitted or its last admission is more than a cooldown before the
\* call), and neither is_user_allowed nor a call for another command or
\* another user changes the pair's cooldown bucket.
C18_CommandCooldownIndependent ==
    [][\A u \in LimitedUsers : \A c \in Commands :
         /\ OnePerCooldown(u, c)'
         /\ IsCommandCall(u, c) =>
              /\ cmd_last'.allowed <=>
                    \/ cmd_admitted[u, c] = <<>>
                    \/ cmd_admitted[u, c][Len(cmd_admitted[u, c])]
                           < wallclock - CooldownOf(c)
              /\ \A u2 \in LimitedUsers : \A c2 \in Commands :
                    <<u2, c2>> # <<u, c>> =>
                        CommandBucket(rate_limiters', u2, c2)
                            = CommandBucket(rate_limiters, u2, c2)
         /\ (\E u2 \in LimitedUsers : IsUserCall(u2)) =>
                CommandBucket(rate_limiters', u, c)
                    = CommandBucket(rate_limiters, u, c)
      ]_vars

\* user 1's add is refused inside its cooldown while the general limiter, the
\* other user's add and user 1's list all hold admissions of their own, and
\* user 1's add was also admitted a second time after its cooldown
C18_Witness ==
    /\ cmd_last.op = "command"
    /\ cmd_last.user_id = 1
    /\ cmd_last.command = "add"
    /\ ~cmd_last.allowed
    /\ Len(cmd_admitted[1, "add"]) = 2
    /\ cmd_admitted[2, "add"] # <<>>
    /\ cmd_admitted[1, "list"] # <<>>
    /\ "general" \in DOMAIN rate_limiters

\* ---------------------------------------------------------------- C16
\* C16: a command's handler executes only if check_permissions and
\* check_rate_limits both passed for that command: no message whose
\* on_command listener refused it (disallowed guild, or the general or the
\* command's rate limiter said no) has had its handler run.
C16_HandlerOnlyAfterChecks ==
    \A m \in Messages :
        messages[m].handler = "ran" =>
            messages[m].listener \notin {"denied_permission", "denied_rate"}

\* ---------------------------------------------------------------- C17
\* the keys of a user in the rate limiters' buckets
RateKeysOf(user_id) ==
    {get_user_key(user_id)}
        \cup {get_user_command_key(user_id, c) : c \in Commands}

\* some rate bucket of the user was read or written (reading a defaultdict
\* creates the key)
RateBucketTouched(user_id) ==
    \E name \in DOMAIN rate_limiters :
        RateKeysOf(user_id) \cap DOMAIN rate_limiters[name].buckets # {}

\* C17: for a blocked user check_permissions answers (False, message), and a
\* command attempted by a blocked user leads to no rate-limit check (no rate
\* bucket of that user is ever read or written) and to no handler run.
C17_BlockedUserStopsEarly ==
    \A u \in LimitedUsers :
        is_user_blocked(u) =>
            /\ \A g \in Guilds :
                  /\ ~check_permissions(u, g).has_permission
                  /\ check_permissions(u, g).error_msg # ""
            /\ ~RateBucketTouched(u)
            /\ \A m \in Messages :
                  messages[m].author = u =>
                      /\ messages[m].listener = "none"
                      /\ messages[m].handler = "none"

\* a blocked user has sent a command, and another user's command sent after
\* it has passed both checks and run
C17_Witness ==
    \E m \in Messages : \E k \in Messages :
        /\ m < k
        /\ is_user_blocked(messages[m].author)
        /\ messages[k].listener = "passed"
        /\ messages[k].handler = "ran"

\* ---------------------------------------------------------------- C19
\* what the last call returned
Returned == [notes |-> db_last.notes, total_count |-> db_last.total_count]

\* the last call changed the notes of the user: add_note for the user, or a
\* successful delete_note of one of the user's notes
ChangedNotesOf(user_id) ==
    /\ db_last.user_id = user_id
    /\ \/ db_last.op = "add_note"
       \/ db_last.op = "delete_note" /\ db_last.success

\* C19: a get_notes or search_notes call for a user that comes next after
\* add_note for that user, or after a successful delete_note of one of the
\* user's notes, returns the notes and the total count as stored at the time
\* of the call, never a result cached before the change.
C19_QueryAfterChangeIsFresh ==
    [][\A u \in DbUsers :
         ChangedNotesOf(u) /\ db_last'.user_id = u =>
            /\ db_last'.op = "get_notes" =>
                   Returned' = SelectNotes(db_notes', u)
            /\ db_last'.op = "search_notes" =>
                   Returned' = SelectMatching(db_notes', u, db_last'.keyword)
      ]_vars

\* ---------------------------------------------------------------- C20
\* the step is a delete command of user_id for the note id note_id
IsDeleteCommand(user_id, note_id) ==
    /\ db_last'.op = "delete_note"
    /\ db_last'.requester = user_id
    /\ db_last'.requested = note_id
    /\ db_last' # db_last \/ db_notes' # db_notes

\* C20: a delete command of user U for note id N removes note N if and only
\* if N exists and is owned by U, and reports success exactly then; after a
\* successful delete the note can no longer be retrieved; deleting a note
\* that does not exist returns False and removes nothing; and no delete
\* command removes a note owned by another user than the requester.
C20_DeleteOwnNoteOnly ==
    [][\A u \in DbUsers : \A n \in DbNoteIds :
         IsDeleteCommand(u, n) =>
            LET owned == Stored(db_notes, n) /\ db_notes[n].user_id = u
            IN  /\ owned <=> (Stored(db_notes, n) /\ ~Stored(db_notes', n))
                /\ owned <=> db_last'.success
                /\ db_last'.success =>
                       ~NotesDatabase_get_note_by_id(db_notes', n, u)
                /\ ~Stored(db_notes, n) =>
                       ~db_last'.success /\ db_notes' = db_notes
                /\ \A k \in DbNoteIds :
                       Stored(db_notes, k) /\ db_notes[k].user_id # u =>
                           db_notes'[k] = db_notes[k]
      ]_vars

\* ---------------------------------------------------------------- C21
\* the time of day, in seconds, a clock expression names: 24-hour when
\* period is empty, else 12-hour with 12pm -> 12 and 12am -> 0
ClockSeconds(hour, minute, period) ==
    LET h == IF period = PM /\ hour # 12 THEN hour + 12
             ELSE IF period = AM /\ hour = 12 THEN 0
             ELSE hour
    IN  h * 3600 + minute * 60

\* the well-formed clock expressions among the inputs: H:MM or HH:MM with
\* hour 0-23, or H:MM am|pm with hour 1-12, minute 0-59
ClockExpressions ==
    {c \in ClockHours \X {<<"0", "0">>, <<"3", "0">>} \X {<<>>, AM, PM, <<" ">> \o PM} :
        IF c[3] = <<>> THEN DigitsValue(c[1]) \in 0..23
        ELSE DigitsValue(c[1]) \in 1..12}

\* C21: for a clock-time expression whose time of day is not strictly after
\* now, each parser returns the instant exactly one day after today's
\* occurrence of that clock time, and for every clock-time expression the
\* returned instant is strictly after now, in the Telegram and in the
\* Discord parser.
C21_ClockTimeRollsForward ==
    \A c \in ClockExpressions :
        LET today == ClockSeconds(DigitsValue(c[1]), DigitsValue(c[2]),
                                  strip(c[3]))
        IN  (time_string = c[1] \o <<":">> \o c[2] \o c[3]
                /\ parsed.parser # "none") =>
               /\ parsed.value.kind = "instant"
               /\ parsed.value.seconds > parse_now
               /\ today <= parse_now =>
                      parsed.value.seconds = today + 86400

\* ---------------------------------------------------------------- C22
\* the relative expressions among the inputs: "in N unit"
RelativeExpressions ==
    {<<"0">>, <<"1">>, <<"3", "0">>}
        \X {MINUTE, HOUR, DAY, WEEK, Plural(MINUTE), Plural(HOUR),
            Plural(DAY), Plural(WEEK)}

\* the length of a unit in seconds, as the expression's wording says
SecondsOfUnitWord(word) ==
    CASE word \in {MINUTE, Plural(MINUTE)} -> 60
      [] word \in {HOUR, Plural(HOUR)} -> 60 * 60
      [] word \in {DAY, Plural(DAY)} -> 24 * 60 * 60
      [] word \in {WEEK, Plural(WEEK)} -> 7 * 24 * 60 * 60

\* C22: for every relative expression "in N unit" with N a non-negative
\* integer and unit one of minute(s), hour(s), day(s), week(s), both parsers
\* return now + N * unit.
C22_RelativeIsNowPlusAmount ==
    \A e \in RelativeExpressions :
        (time_string = IN_ \o e[1] \o <<" ">> \o e[2]
            /\ parsed.parser # "none") =>
           /\ ~parsed.raised
           /\ parsed.value =
                  At(parse_now + DigitsValue(e[1]) * SecondsOfUnitWord(e[2]))

\* "in 30 weeks" was parsed by the Discord parser at 14:30:20
C22_Witness ==
    /\ time_string = IN_ \o <<"3", "0", " ">> \o Plural(WEEK)
    /\ parse_now = 52220
    /\ parsed.parser = "discord"
    /\ parsed.value.kind = "instant"

\* ---------------------------------------------------------------- C23
UnitWords ==
    {MINUTE, HOUR, DAY, WEEK, Plural(MINUTE), Plural(HOUR), Plural(DAY),
     Plural(WEEK)}

\* rule 1: "in " followed by an integer and a unit
IsRelativeExpression(t) ==
    /\ startswith(t, IN_)
    /\ LET rest == strip(DropFirst(t, 3))
       IN  \E n \in 1..Len(rest) :
              /\ int(SubSeq(rest, 1, n)).ok
              /\ strip(DropFirst(rest, n)) \in UnitWords

\* rule 2: H:MM or HH:MM, or H:MM followed by am or pm, in range
IsClockExpression(t) ==
    LET pieces == split_on(t, ":")
        hour == strip(pieces[1])
        rest == strip(pieces[2])
        period == strip(DropFirst(rest, 2))
    IN  /\ Len(pieces) = 2
        /\ Len(hour) \in 1..2 /\ AllDigits(hour)
        /\ Len(rest) >= 2 /\ AllDigits(SubSeq(rest, 1, 2))
        /\ period \in {<<>>, AM, PM}
        /\ DigitsValue(SubSeq(rest, 1, 2)) \in 0..59
        /\ ClockSeconds(DigitsValue(hour), 0, period) \in 0..(23 * 3600)

\* rule 3: YYYY-MM-DD, MM/DD/YYYY or DD/MM/YYYY naming a calendar date
IsDateExpression(t) ==
    \/ strptime(t, "-", 1, 2, 3).ok
    \/ strptime(t, "/", 3, 1, 2).ok
    \/ strptime(t, "/", 3, 2, 1).ok

\* rule 4: the keywords
IsKeyword(t) == t \in {TOMORROW, NEXT_WEEK, NEXT_MONTH}

MatchesGrammar(str) ==
    LET t == strip(lower(str))
    IN  \/ IsRelativeExpression(t)
        \/ IsClockExpression(t)
        \/ IsDateExpression(t)
        \/ IsKeyword(t)

\* C23: for every input string (the empty string, out-of-range clock times,
\* unknown units and calendar-invalid dates included) a parser returns "no
\* result" instead of raising, and it returns an instant only for an input
\* that matches one of the grammar rules.
C23_SoftFailureAndGrammarOnly ==
    parsed.parser # "none" =>
        /\ ~parsed.raised
        /\ parsed.value # ParseNone => MatchesGrammar(time_string)

\* the send calls made during firing number f
CallsOfFiring(f) == SelectSeq(send_calls, LAMBDA c : c.firing = f)

NonDecreasing(bucket) ==
    \A i \in 1..Len(bucket) : \A k \in i..Len(bucket) : bucket[i] <= bucket[k]

\* after is what is left of before when entries are removed from its front
IsSuffix(after, before) ==
    /\ Len(after) <= Len(before)
    /\ after = SubSeq(before, Len(before) - Len(after) + 1, Len(before))

\* C25: while threads call is_allowed and get_bucket_info in any
\* interleaving, every bucket holds at most bucket_size timestamps in
\* non-decreasing order, and a step changes a bucket only by appending one
\* timestamp at its back or by removing timestamps from its front.
C25_BucketBoundedOrderedQueue ==
    [][ \A k \in Keys :
          /\ Len(buckets[k]) <= bucket_size /\ Len(buckets'[k]) <= bucket_size
          /\ NonDecreasing(buckets[k]) /\ NonDecreasing(buckets'[k])
          /\ \/ IsSuffix(buckets'[k], buckets[k])
             \/ \E x \in 0..MaxClock : buckets'[k] = Append(buckets[k], x)
      ]_vars

\* a full bucket that has lost a timestamp at its front and was read by
\* get_bucket_info while another thread was inside is_allowed
C25_Witness ==
    \E k \in Keys :
        /\ Len(buckets[k]) = bucket_size
        /\ Len(admitted[k]) > bucket_size
        /\ bucket_info.key = k
        /\ \E t \in Threads : pc[t] \in {"cleanup", "acquire", "check", "append"}

\* thread t returns from is_allowed with a rejection in this step
RejectReturn(t) == pc[t] = "check" /\ pc'[t] = "idle"

\* thread t returns from is_allowed with an admission in this step
AcceptReturn(t) == pc[t] = "append" /\ pc'[t] = "idle"

Max0(n) == IF n > 0 THEN n ELSE 0

\* C26: a rejecting is_allowed call appends nothing to any bucket and
\* returns retry_after = max(0, window_size - (now - oldest remaining
\* timestamp)), which lies between 0 and window_size; an accepting call
\* appends exactly one timestamp, to the bucket of its key, and returns
\* retry_after 0; no other step of a call appends anything.
C26_RejectRecordsNothing ==
    [][ /\ \A t \in Threads :
            RejectReturn(t) =>
                /\ buckets' = buckets
                /\ admitted' = admitted
                /\ ~result'[t].allowed
                /\ result'[t].retry_after =
                       Max0(window_size - (wallclock - Head(buckets[frame[t].key])))
                /\ result'[t].retry_after >= 0
                /\ result'[t].retry_after <= window_size
        /\ \A t \in Threads :
            AcceptReturn(t) =>
                /\ result'[t].allowed
                /\ result'[t].retry_after = 0
                /\ Len(buckets'[frame[t].key]) = Len(buckets[frame[t].key]) + 1
                /\ \A k \in Keys \ {frame[t].key} : buckets'[k] = buckets[k]
        /\ \A k \in Keys :
            Len(buckets'[k]) > Len(buckets[k]) =>
                \E t \in Threads : AcceptReturn(t) /\ frame[t].key = k
      ]_vars

\* a thread has returned from a rejected call with a retry_after strictly
\* between 0 and window_size, and the full bucket holds exactly the
\* timestamps that were admitted
C26_Witness ==
    \E t \in Threads, k \in Keys :
        /\ result[t].returned /\ ~result[t].allowed
        /\ result[t].retry_after > 0 /\ result[t].retry_after < window_size
        /\ pc[t] = "idle"
        /\ Len(buckets[k]) = bucket_size
        /\ buckets[k] = admitted[k]

\* thread t is inside get_bucket_info
InGetBucketInfo(t) == pc[t] \in {"info_cleanup", "info_read"}

\* what an is_allowed call that reads the time c for its cleanup and for
\* its check returns on bucket, and the bucket it leaves
IsAllowedOn(bucket, c) ==
    LET cleaned == cleanup_expired(bucket, c, window_size)
    IN  IF Len(cleaned) >= bucket_size
        THEN [allowed |-> FALSE,
              retry_after |-> Max0(window_size - (c - Head(cleaned))),
              bucket |-> cleaned]
        ELSE [allowed |-> TRUE, retry_after |-> 0,
              bucket |-> Append(cleaned, c)]

\* C27: a step of get_bucket_info changes a bucket only by removing from
\* its front timestamps older than the window, so every is_allowed call
\* made from then on returns what it would have returned without the
\* get_bucket_info call; it changes no result and no record of admissions;
\* and the dict it returns has current_requests + remaining_requests =
\* max_requests = bucket_size.
C27_GetBucketInfoReadOnly ==
    [][ \A t \in Threads :
          ( InGetBucketInfo(t) /\ pc'[t] # pc[t] ) =>
              /\ result' = result
              /\ admitted' = admitted
              /\ \A k \in Keys :
                    /\ IsSuffix(buckets'[k], buckets[k])
                    /\ \A i \in 1..(Len(buckets[k]) - Len(buckets'[k])) :
                          buckets[k][i] < wallclock - window_size
                    /\ \A c \in wallclock..MaxClock :
                          IsAllowedOn(buckets'[k], c) = IsAllowedOn(buckets[k], c)
              /\ pc'[t] = "idle" =>
                    /\ bucket_info'.key = frame[t].key
                    /\ bucket_info'.current_requests
                          = Len(buckets[frame[t].key])
                    /\ bucket_info'.current_requests
                          + bucket_info'.remaining_requests
                          = bucket_info'.max_requests
                    /\ bucket_info'.max_requests = bucket_size
      ]_vars

\* get_bucket_info has removed an expired timestamp and has reported a
\* bucket that holds one timestamp
C27_Witness ==
    /\ bucket_info.current_requests = 1
    /\ bucket_info.remaining_requests = bucket_size - 1
    /\ \E k \in Keys :
          /\ bucket_info.key = k
          /\ Len(admitted[k]) > Len(buckets[k])
    /\ \A t \in Threads : pc[t] = "idle"

\* the general bucket of user_id in a map of limiters; a limiter or a
\* bucket not created yet is empty
GeneralBucketOf(limiters, user_id) ==
    IF "general" \in DOMAIN limiters
    THEN BucketOf(limiters["general"], get_user_key(user_id))
    ELSE <<>>

\* the on_command listener of message m gets as far as check_rate_limits
\* in this step
ChecksRateLimits(m) ==
    /\ messages[m].listener = "pending"
    /\ messages'[m].listener \in {"passed", "denied_rate"}

\* C28: check_rate_limits asks the general limiter first.  If the user's
\* general bucket is full the result is (false, the general limiter's
\* retry_after) and the command's limiter is neither created nor changed.
\* Otherwise the general bucket gets the timestamp and the command's
\* limiter decides: (false, its retry_after) if the (user, command) bucket
\* is full, else (true, 0).
C28_GeneralLimiterFirst ==
    [][ \A m \in Messages :
          ChecksRateLimits(m) =>
            LET u == messages[m].author
                cmd == messages[m].command
                general == cleanup_expired(GeneralBucketOf(rate_limiters, u),
                                           wallclock, RATE_LIMIT_WINDOW)
                specific == cleanup_expired(
                                CommandBucket(rate_limiters, u, cmd),
                                cmd_last'.cleanup_time, CooldownOf(cmd))
            IN  IF Len(general) >= RATE_LIMIT_BUCKET_SIZE
                THEN /\ messages'[m].listener = "denied_rate"
                     /\ cmd_last'.retry_after =
                            Max0(RATE_LIMIT_WINDOW - (wallclock' - Head(general)))
                     /\ (cmd \in DOMAIN rate_limiters')
                            = (cmd \in DOMAIN rate_limiters)
                     /\ cmd \in DOMAIN rate_limiters
                            => rate_limiters'[cmd] = rate_limiters[cmd]
                     /\ cmd_admitted' = cmd_admitted
                ELSE /\ Len(GeneralBucketOf(rate_limiters', u)) = Len(general) + 1
                     /\ IF Len(specific) >= 1
                        THEN /\ messages'[m].listener = "denied_rate"
                             /\ cmd_last'.retry_after =
                                    Max0(CooldownOf(cmd)
                                         - (wallclock' - Head(specific)))
                             /\ CommandBucket(rate_limiters', u, cmd) = specific
                        ELSE /\ messages'[m].listener = "passed"
                             /\ cmd_last'.retry_after = 0
                             /\ CommandBucket(rate_limiters', u, cmd)
                                    = <<wallclock'>>
      ]_vars

\* the general limiter has rejected a user's command whose own limiter
\* has never been created, after the command limiter rejected an earlier
\* command of that user
C28_Witness ==
    \E m1, m2 \in Messages :
        /\ m1 < m2
        /\ messages[m1].author = messages[m2].author
        /\ messages[m1].listener = "denied_rate"
        /\ messages[m1].command \in DOMAIN rate_limiters
        /\ messages[m2].listener = "denied_rate"
        /\ messages[m2].command \notin DOMAIN rate_limiters
        /\ cmd_last.op = "user" /\ ~cmd_last.allowed

\* this step is a check_permissions call for (user_id, guild_id)
ChecksPermissions(user_id, guild_id) ==
    /\ sec_last' # sec_last
    /\ sec_last'.op = "check_permissions"
    /\ sec_last'.user_id = user_id
    /\ sec_last'.guild_id = guild_id

\* the last step was a check_permissions call for (user_id, guild_id)
Checked(user_id, guild_id) ==
    /\ sec_last.op = "check_permissions"
    /\ sec_last.user_id = user_id
    /\ sec_last.guild_id = guild_id

\* C29: check_permissions tests the block list first and the guild second.
\* A blocked user gets (false, the blocked message) in a direct message,
\* in an allowed guild and in a guild that is not allowed; a user who is
\* not blocked gets (false, the guild message) in a guild that is not
\* allowed and (true, "") in a direct message and in an allowed guild.  The
\* call changes no rate limiter, no bucket and nothing of the security
\* state.
C29_BlockListFirst ==
    [][ \A u \in LimitedUsers, g \in Guilds :
          ChecksPermissions(u, g) =>
            /\ IF u \in blocked_users
               THEN /\ ~sec_last'.has_permission
                    /\ sec_last'.error_msg = "You are blocked from using this bot."
               ELSE IF g # NoGuild /\ allowed_guilds # {} /\ g \notin allowed_guilds
               THEN /\ ~sec_last'.has_permission
                    /\ sec_last'.error_msg
                          = "This bot is not available in this server."
               ELSE /\ sec_last'.has_permission
                    /\ sec_last'.error_msg = ""
            /\ g = NoGuild /\ u \notin blocked_users => sec_last'.has_permission
            /\ UNCHANGED <<limiterVars, commandLimiterVars, allowed_guilds,
                           blocked_users, suspicious_activity>>
      ]_vars

\* a blocked user has been refused in a guild that is not allowed, with
\* rate buckets and suspicious-activity records present
C29_Witness ==
    /\ \E u \in LimitedUsers, g \in Guilds :
          /\ Checked(u, g)
          /\ u \in blocked_users
          /\ g # NoGuild /\ g \notin allowed_guilds
    /\ rate_limiters # <<>>
    /\ \E u \in LimitedUsers : suspicious_activity[u] # <<>>

\* this step is a record_command_usage call; sec_last' names its arguments
RecordsUsage(success) ==
    /\ sec_last'.op = "record_command_usage"
    /\ sec_last'.success = success
    /\ \/ sec_last' # sec_last
       \/ suspicious_activity' # suspicious_activity

\* the record a failed call of the step's arguments stores
RecordOfStep ==
    Activity(wallclock, sec_last'.command, sec_last'.guild_id)

\* nothing but the suspicious-activity list of user_id changes
OnlyActivityOf(user_id) ==
    /\ UNCHANGED <<allowed_guilds, blocked_users>>
    /\ UNCHANGED <<limiterVars, commandLimiterVars>>
    /\ \A u \in LimitedUsers \ {user_id} :
          suspicious_activity'[u] = suspicious_activity[u]

\* C30 as stated: a record_command_usage call with success = false makes
\* the acting user's list of suspicious-activity records exactly one record
\* longer and changes nothing else; a call with success = true changes
\* nothing.
C30_FailureAppendsOneRecord ==
    [][ /\ RecordsUsage(FALSE) =>
            /\ suspicious_activity'[sec_last'.user_id] =
                   Append(suspicious_activity[sec_last'.user_id], RecordOfStep)
            /\ OnlyActivityOf(sec_last'.user_id)
        /\ RecordsUsage(TRUE) =>
            /\ suspicious_activity' = suspicious_activity
            /\ OnlyActivityOf(sec_last'.user_id)
      ]_vars

\* C30, amended: a record_command_usage call with success = false appends
\* one record to the acting user's list and keeps the last 10 records of
\* the list, so the oldest record is dropped when the list already held
\* 10; the block list, the allowed-guild list, every rate bucket and the
\* other users' lists stay as they were.  A call with success = true
\* changes nothing.
C30_FailureAppendsAndKeepsLastTen ==
    [][ /\ RecordsUsage(FALSE) =>
            /\ suspicious_activity'[sec_last'.user_id] =
                   LastN(Append(suspicious_activity[sec_last'.user_id],
                                RecordOfStep), 10)
            /\ OnlyActivityOf(sec_last'.user_id)
        /\ RecordsUsage(TRUE) =>
            /\ suspicious_activity' = suspicious_activity
            /\ OnlyActivityOf(sec_last'.user_id)
      ]_vars

\* a failed command has been recorded for a user whose list holds 10
\* records taken at different times, while the user has timestamps in the
\* general rate bucket and is not blocked
C30_Witness ==
    /\ sec_last.op = "record_command_usage" /\ ~sec_last.success
    /\ LET lst == suspicious_activity[sec_last.user_id]
       IN  /\ Len(lst) = 10
           /\ lst[1].timestamp < lst[10].timestamp
    /\ GeneralBucketOf(rate_limiters, sec_last.user_id) # <<>>
    /\ sec_last.user_id \notin blocked_users

\* no thread is between the append and the end of the with-block of
\* record_suspicious_activity
NoThreadRecording == \A t \in Threads : sec_pc[t] \in {"idle", "lock"}

\* C31: whenever no thread is inside the locked block of
\* record_suspicious_activity, each user's suspicious-activity list holds
\* at most 10 records and is the last 10 (or fewer) of the records
\* appended for the user, in the order they were appended, also when
\* threads call record_suspicious_activity for the same user at once.
C31_LogIsLastTenRecorded ==
    NoThreadRecording =>
        \A u \in LimitedUsers :
            /\ Len(suspicious_activity[u]) <= 10
            /\ suspicious_activity[u] = LastN(recorded[u], 10)

\* two threads have recorded for one user, more than 10 records in all,
\* the oldest ones have been dropped, and one thread waits for the lock
C31_Witness ==
    \E u \in LimitedUsers :
        /\ Len(recorded[u]) > 10
        /\ Len(suspicious_activity[u]) = 10
        /\ \E i, k \in 1..10 :
              suspicious_activity[u][i].command # suspicious_activity[u][k].command
        /\ NoThreadRecording
        /\ \E t \in Threads : sec_pc[t] = "lock"

\* this step is a call of is_guild_allowed(g)
AsksGuild(g) ==
    /\ sec_last' # sec_last
    /\ sec_last'.op = "is_guild_allowed"
    /\ sec_last'.guild_id = g

\* C32: after any sequence of add_allowed_guild and remove_allowed_guild
\* calls, is_guild_allowed(g) returns true exactly when the allow-list is
\* empty or holds g; with an empty allow-list it returns true for every
\* guild.  add_allowed_guild puts g into the list and remove_allowed_guild
\* takes it out.
C32_EmptyAllowListIsOpen ==
    [][ \A g \in GuildIds :
          /\ AsksGuild(g) =>
                /\ sec_last'.has_permission
                      = (allowed_guilds = {} \/ g \in allowed_guilds)
                /\ allowed_guilds = {} => sec_last'.has_permission
          /\ ( sec_last' # sec_last /\ sec_last'.op = "add_allowed_guild"
               /\ sec_last'.guild_id = g )
                => allowed_guilds' = allowed_guilds \cup {g}
          /\ ( sec_last' # sec_last /\ sec_last'.op = "remove_allowed_guild"
               /\ sec_last'.guild_id = g )
                => allowed_guilds' = allowed_guilds \ {g}
      ]_vars

\* the only guild of the allow-list has been removed and is_guild_allowed
\* has answered true for a guild that was never on the list
C32_Witness ==
    /\ allowed_guilds = {}
    /\ sec_last.op = "is_guild_allowed"
    /\ sec_last.guild_id \notin ALLOWED_GUILDS
    /\ sec_last.has_permission

\* "no date": the string is a valid date under none of the three formats
NoDate == <<0, 0, 0>>

\* date expressions and the calendar day the three formats, tried in the
\* order YYYY-MM-DD, MM/DD/YYYY, DD/MM/YYYY, give for each
DateExpectations ==
    {<<<<"2", "0", "2", "4", "-", "0", "1", "-", "1", "5">>, <<2024, 1, 15>>>>,
     <<<<"2", "0", "2", "4", "-", "0", "2", "-", "2", "9">>, <<2024, 2, 29>>>>,
     <<<<"2", "0", "2", "3", "-", "0", "2", "-", "2", "9">>, NoDate>>,
     <<<<"2", "0", "2", "4", "-", "0", "2", "-", "3", "0">>, NoDate>>,
     <<<<"2", "0", "2", "4", "-", "1", "3", "-", "0", "1">>, NoDate>>,
     <<<<"0", "1", "/", "1", "5", "/", "2", "0", "2", "4">>, <<2024, 1, 15>>>>,
     <<<<"0", "1", "/", "0", "2", "/", "2", "0", "2", "4">>, <<2024, 1, 2>>>>,
     <<<<"1", "5", "/", "0", "1", "/", "2", "0", "2", "4">>, <<2024, 1, 15>>>>,
     <<<<"1", "3", "/", "0", "1", "/", "2", "0", "2", "4">>, <<2024, 1, 13>>>>,
     <<<<"1", "3", "/", "1", "3", "/", "2", "0", "2", "4">>, NoDate>>}

\* C33: a date expression is read as YYYY-MM-DD, else as MM/DD/YYYY, else
\* as DD/MM/YYYY, the first format under which it is a calendar date
\* winning: 13/01/2024 is 13 January 2024, 01/02/2024 is 2 January 2024, a
\* string that is a date under no format gives no result, and the result
\* has the time of day of now.
C33_DateFormatsInOrder ==
    \A e \in DateExpectations :
        (time_string = e[1] /\ parsed.parser # "none") =>
            IF e[2] = NoDate
            THEN parsed.value = ParseNone
            ELSE /\ parsed.value.kind = "date"
                 /\ parsed.value.date = e[2]
                 /\ parsed.value.seconds = parse_now

\* C33 for the Telegram parser alone
C33_TelegramDateFormatsInOrder ==
    parsed.parser = "telegram" => C33_DateFormatsInOrder

\* C34: a string that starts with "in " is read as a relative time only
\* when what follows is an integer amount and exactly one of the units
\* minute(s), hour(s), day(s), week(s): with a non-integer amount, an unknown
\* unit, or a unit followed by further characters ("in 5 weekends",
\* "in 2 daysago") neither parser returns an instant.
C34_RelativeNeedsAmountAndUnit ==
    LET t == strip(lower(time_string))
    IN  (parsed.parser # "none" /\ startswith(t, IN_)
            /\ ~IsRelativeExpression(t))
        => parsed.value.kind # "instant"

\* C34 for the input strings in which the unit word is one whole word
C34_UnitIsAWholeWord ==
    LET t == strip(lower(time_string))
    IN  (parsed.parser = "telegram" /\ startswith(t, IN_)
            /\ ~IsRelativeExpression(t)
            /\ Len(split(DropFirst(t, 3))) <= 2)
        => parsed.value.kind # "instant"

\* C35: between scheduler operations the counter of every user equals the
\* number of entries of reminder_callbacks the user owns, 0 for a user
\* without entries, after any sequence of schedule, re-schedule, cancel and
\* fire.
C35_CountEqualsLiveJobs ==
    \A u \in Users :
        user_reminder_counts[u] = Cardinality(LiveJobsOf(reminder_callbacks, u))

\* C36: between scheduler operations (no fire handler is in progress) a
\* job id is in reminder_callbacks if and only if the timer engine holds a
\* pending job with that id: no metadata without a timer, no timer without
\* metadata.
C36_MetadataIffTimer ==
    tasks = <<>> => DOMAIN reminder_callbacks = DOMAIN jobstore

\* ---------------------------------------------------------------- C37
\* The timer engine and the event loop keep running: a due job is taken
\* from the job store, a created task is run, and time passes.
EngineFairness ==
    /\ WF_vars(\E j \in JobIds : ProcessJobs(j))
    /\ WF_vars(\E j \in JobIds : RunJob(j))
    /\ WF_vars(Tick)

FairSpec == Init /\ [][Next]_vars /\ EngineFairness

\* the fire time of a live job has come while the timer engine runs
FireTimePassed(j) ==
    /\ running
    /\ j \in DOMAIN reminder_callbacks
    /\ reminder_callbacks[j].reminder_time <= now

\* C37: every live job whose fire time has passed eventually leaves
\* reminder_callbacks, whether it fired or the timer engine skipped it as
\* missed, so that get_user_reminders no longer returns it and it no longer
\* counts against its user's quota.
C37_LiveJobEventuallyLeaves ==
    \A j \in JobIds : FireTimePassed(j) ~> (j \notin DOMAIN reminder_callbacks)

\* ---------------------------------------------------------------- C38
\* line 135, "return None" of the except clause
ErrorReturn == NoJobId

\* schedule_reminder when building the trigger or scheduler.add_job raises
\* (lines 119-125): the quota check and the note lookup have passed and the
\* metadata is already stored (lines 110-116), the timers are as they were,
\* the increment of line 127 is not reached and the except clause of lines
\* 133-135 returns None.
schedule_reminder_add_job_raises(user_id, note_id, reminder_time, channel_id, job_id) ==
    LET jid == EffectiveJobId(user_id, note_id, reminder_time, job_id)
    IN  /\ SchedulePath(user_id, note_id) = "scheduled"
        /\ reminder_callbacks' = Put(reminder_callbacks, jid,
               [user_id |-> user_id,
                note_id |-> note_id,
                channel_id |-> channel_id,
                reminder_time |-> reminder_time,
                note_text |-> Truncate(get_note_by_id(note_id).note_text)])
        /\ last' = Call("schedule", jid, ErrorReturn, "error")
        /\ UNCHANGED <<otherVars, jobstore, user_reminder_counts, discord_bot,
                       running, tasks, channels, notes, sent, now>>

\* the scheduler with a timer engine that may refuse a job
EnqueueNext ==
    \/ Next
    \/ \E u \in Users, n \in NoteIds, t \in FireTimes, c \in Channels :
          schedule_reminder_add_job_raises(u, n, t, c, NoJobId)

SpecEnqueue == Init /\ [][EnqueueNext]_vars

\* a schedule_reminder call ends in this step
SchedulesReminder ==
    \E u \in Users, n \in NoteIds, t \in FireTimes, c \in Channels :
        \/ schedule_reminder(u, n, t, c, NoJobId)
        \/ schedule_reminder_add_job_raises(u, n, t, c, NoJobId)

\* C38: a schedule_reminder call that returns no job id, whether the quota
\* was reached, the note was not found or an error was raised while the
\* timer was enqueued, leaves reminder_callbacks, the pending timers and
\* the counters of all users as they were before the call.
C38_FailedScheduleChangesNothing ==
    [][ (SchedulesReminder /\ last'.ret = NoJobId)
        => UNCHANGED <<reminder_callbacks, jobstore, tasks,
                       user_reminder_counts>>
      ]_vars

\* C38 for the two refusals, quota reached and note not found
C38_RefusalChangesNothing ==
    [][ (SchedulesReminder /\ last'.path \in {"capacity", "notfound"})
        => UNCHANGED <<reminder_callbacks, jobstore, tasks,
                       user_reminder_counts>>
      ]_vars

\* the command's limiter has rejected in this step the command of message
\* m, which the general limiter had admitted
CommandLimiterRejects(m) ==
    /\ ChecksRateLimits(m)
    /\ messages'[m].listener = "denied_rate"
    /\ cmd_last'.op = "command"
    /\ ~cmd_last'.allowed

\* C39: when the general limiter admits a call of check_rate_limits and
\* the command's limiter then rejects it, the user's general bucket holds
\* afterwards what it held before (without its expired entries) and, last,
\* the timestamp of this call: the rejected command has used one slot of
\* the user's general quota.
C39_RejectedCommandKeepsGeneralSlot ==
    [][ \A m \in Messages :
          CommandLimiterRejects(m) =>
            LET u == messages[m].author
                general == cleanup_expired(GeneralBucketOf(rate_limiters, u),
                                           wallclock, RATE_LIMIT_WINDOW)
                after == GeneralBucketOf(rate_limiters', u)
            IN  /\ Len(general) < RATE_LIMIT_BUCKET_SIZE
                /\ Len(after) = Len(general) + 1
                /\ SubSeq(after, 1, Len(general)) = general
                /\ after[Len(after)] \in wallclock..wallclock'
      ]_vars

\* the command limiter has just rejected a command of a user whose general
\* bucket holds the timestamp of the admitted command and that of the
\* rejected one
C39_Witness ==
    \E m \in Messages :
        /\ messages[m].listener = "denied_rate"
        /\ cmd_last.op = "command" /\ ~cmd_last.allowed
        /\ cmd_last.user_id = messages[m].author
        /\ cmd_last.command = messages[m].command
        /\ Len(GeneralBucketOf(rate_limiters, messages[m].author)) >= 2
        /\ GeneralBucketOf(rate_limiters, messages[m].author)[
               Len(GeneralBucketOf(rate_limiters, messages[m].author))]
             <= cmd_last.current_time

\* ---------------------------------------------------------------- C40
\* the calendar date of now
ParserToday == <<2024, 1, 15>>

\* remind_command (discord_handlers.py lines 403-476) for a message
\* "!remind <note_id> <time_string>" of user_id in channel_id, at the time
\* parse_now: the note lookup, the limit check on get_user_reminders, the
\* parse of the time expression and, with the parser's result as it is,
\* schedule_reminder.  The handler replies in every case; only a call that
\* gets as far as schedule_reminder with a free quota registers a job.
remind_command(user_id, note_id, channel_id) ==
    LET note == get_note_by_id(note_id)
        user_reminders == LiveJobsOf(reminder_callbacks, user_id)
        outcome == parse_time_string(time_string, parse_now)
        reminder_time == outcome.value
        jid == DerivedJobId(user_id, note_id, reminder_time)
    IN  /\ IF ~note.present
              \/ Cardinality(user_reminders) >= REMINDER_MAX_PER_USER
           THEN UNCHANGED <<parsed, reminder_callbacks, jobstore,
                            user_reminder_counts, last>>
           ELSE /\ parsed' = [parser |-> "discord", raised |-> outcome.raised,
                              value |-> reminder_time]
                /\ IF reminder_time = ParseNone
                   THEN UNCHANGED <<reminder_callbacks, jobstore,
                                    user_reminder_counts, last>>
                   ELSE IF SchedulePath(user_id, note_id) = "scheduled"
                   THEN /\ reminder_callbacks' = Put(reminder_callbacks, jid,
                               [user_id |-> user_id,
                                note_id |-> note_id,
                                channel_id |-> channel_id,
                                reminder_time |-> reminder_time,
                                note_text |-> Truncate(note.note_text)])
                        /\ jobstore' = Put(jobstore, jid, reminder_time)
                        /\ user_reminder_counts' =
                               increment_user_reminder_count(
                                   user_reminder_counts, user_id)
                        /\ last' = Call("schedule", jid, jid, "scheduled")
                   ELSE /\ UNCHANGED <<reminder_callbacks, jobstore,
                                       user_reminder_counts>>
                        /\ last' = Call("schedule", jid, CapacityReturn,
                                        SchedulePath(user_id, note_id))
        /\ UNCHANGED <<time_string, parse_now, discord_bot, running, tasks,
                       channels, notes, sent, now>>
        /\ UNCHANGED <<listing, limiterVars, commandLimiterVars, dispatchVars,
                       databaseVars, fireVars, infoVars, securityVars,
                       activityVars>>

RemindNext ==
    \/ \E n \in NoteIds : add_note(n, TextOf(n))
    \/ \E u \in Users, n \in NoteIds, c \in Channels : remind_command(u, n, c)

SpecRemind == ParseInit /\ [][RemindNext]_vars

\* date a is an earlier calendar date than date b
DateBefore(a, b) ==
    \/ a[1] < b[1]
    \/ a[1] = b[1] /\ a[2] < b[2]
    \/ a[1] = b[1] /\ a[2] = b[2] /\ a[3] < b[3]

\* the fire time is strictly later than now
AfterNow(reminder_time) ==
    CASE reminder_time.kind = "instant" -> reminder_time.seconds > parse_now
      [] reminder_time.kind = "date" ->
            \/ DateBefore(ParserToday, reminder_time.date)
            \/ /\ reminder_time.date = ParserToday
               /\ reminder_time.seconds > parse_now
      [] OTHER -> FALSE

\* C40: every reminder scheduled through the remind command has a fire
\* time strictly later than the moment of scheduling, whatever time
\* expression parse_time_string accepted (relative, clock time, date or
\* keyword).
C40_ScheduledAfterNow ==
    \A j \in DOMAIN reminder_callbacks :
        AfterNow(reminder_callbacks[j].reminder_time)

====
